---- MODULE Spec2Model ----
(***************************************************************************)
(* Model of the recommendation core of backend_py: the in-memory catalog   *)
(* (services/catalog.py), the reranker (services/llm_ranker.py), the two    *)
(* recommendation handlers (routes/recommend.py), the image generation      *)
(* service (services/gemini_image_service.py) and the generate endpoint     *)
(* (routes/generate.py).                                                    *)
(*                                                                         *)
(* Specifications                                                           *)
(*  - Spec: the catalog calls and the recommendation handlers, one whole    *)
(*    call at a time;                                                       *)
(*  - SpecReload: find_similar and stats followed read by read while        *)
(*    reload() runs on another thread;                                      *)
(*  - SpecGenerate: the image generation call followed attempt by attempt;  *)
(*  - SpecRerank: rerank on the candidates find_similar returns;            *)
(*  - SpecPreference: recommendation requests that state a rerank           *)
(*    preference;                                                           *)
(*  - SpecServiceFair: the image generation service called on its own, a    *)
(*    pending attempt or sleep being taken in the end;                      *)
(*  - SpecScore: _score_product on keyword lists with repeated keywords;    *)
(*  - SpecCandidates: the handlers on a catalog larger than the search      *)
(*    limit of find_similar;                                                *)
(*  - SpecReplyText: rerank on reply texts with prose and code fences;      *)
(*  - SpecConcurrent: two image generation calls on two threads.            *)
(*                                                                         *)
(* Conventions                                                              *)
(*  - a Python str is a sequence of one-character strings, so that lower(), *)
(*    strip(), split() and the substring test `in` are computed;            *)
(*  - an Optional value is a sequence of length at most one: None is <<>>   *)
(*    and a present value v is <<v>>;                                       *)
(*  - a score is kept in half units (the code adds 1.0 or 0.5 per keyword), *)
(*    so 2 stands for 1.0 and 1 for 0.5; thresholds use the same unit;      *)
(*  - a dict is a function whose domain is its key set.                     *)
(***************************************************************************)
EXTENDS Integers, Sequences, FiniteSets, TLC

VARIABLES
    catalog,      \* CatalogService._catalog, the snapshot
    source,       \* the catalog source as the last _load found it
    configured,   \* AZURE_OPENAI_ENDPOINT and AZURE_OPENAI_KEY are both set
    gemini,       \* GeminiImageService: api_keys, max_retries, the client library found
    op,           \* the operation whose result is held, or "idle"
    args,         \* its inputs
    locals,       \* the handler's local values (candidate_recs, ids, max_k, ...)
    ret,          \* its return value
    raised        \* whether an exception left the operation

vars == <<catalog, source, configured, gemini, op, args, locals, ret, raised>>

(***************************************************************************)
(* Bounds of the model.                                                     *)
(***************************************************************************)
MaxCatalog == 3
MaxReply == 2
MaxResultsBound == 2
MaxPerCategoryBound == 2

(***************************************************************************)
(* Python values.                                                           *)
(***************************************************************************)
None == <<>>

Some(v) == <<v>>

\* Python `x or d` for an Optional[int]: None and 0 are both falsy.
OrElse(x, d) == IF x = None \/ x[1] = 0 THEN d ELSE x[1]

Min(a, b) == IF a <= b THEN a ELSE b

Max(a, b) == IF a >= b THEN a ELSE b

\* seq[:n] for n >= 0.
Prefix(seq, n) == SubSeq(seq, 1, Min(n, Len(seq)))

Range(seq) == {seq[i] : i \in 1..Len(seq)}

\* str.lower() on one character.
LowerChar(c) ==
    CASE c = "C" -> "c"
      [] c = "T" -> "t"
      [] c = "R" -> "r"
      [] c = "E" -> "e"
      [] c = "D" -> "d"
      [] c = "W" -> "w"
      [] c = "P" -> "p"
      [] c = "A" -> "a"
      [] c = "I" -> "i"
      [] c = "K" -> "k"
      [] c = "Y" -> "y"
      [] c = "N" -> "n"
      [] c = "V" -> "v"
      [] c = "L" -> "l"
      [] OTHER -> c

\* str.lower()
Lower(s) == [i \in 1..Len(s) |-> LowerChar(s[i])]

\* str.lstrip() / str.strip(): the only whitespace of the model is " ".
RECURSIVE LStrip(_)
LStrip(s) == IF s # <<>> /\ Head(s) = " " THEN LStrip(Tail(s)) ELSE s

RECURSIVE RStrip(_)
RStrip(s) == IF s # <<>> /\ s[Len(s)] = " " THEN RStrip(SubSeq(s, 1, Len(s) - 1)) ELSE s

Strip(s) == RStrip(LStrip(s))

\* `sub in text` for two strings.
Contains(text, sub) ==
    \E i \in 1..(Len(text) + 1) :
        /\ i + Len(sub) - 1 <= Len(text)
        /\ SubSeq(text, i, i + Len(sub) - 1) = sub

\* str.split(): the maximal runs of non-whitespace characters.
RECURSIVE SplitFrom(_, _, _)
SplitFrom(s, i, cur) ==
    IF i > Len(s)
    THEN IF cur = <<>> THEN <<>> ELSE <<cur>>
    ELSE IF s[i] = " "
         THEN (IF cur = <<>> THEN <<>> ELSE <<cur>>) \o SplitFrom(s, i + 1, <<>>)
         ELSE SplitFrom(s, i + 1, Append(cur, s[i]))

Split(s) == SplitFrom(s, 1, <<>>)

\* ' '.join(words)
RECURSIVE Join(_)
Join(words) ==
    IF words = <<>> THEN <<>>
    ELSE IF Len(words) = 1 THEN words[1]
    ELSE words[1] \o <<" ">> \o Join(Tail(words))

(***************************************************************************)
(* Words used by the catalog sources, the analyses and the options.         *)
(***************************************************************************)
wCasual == <<"c", "a", "s", "u", "a", "l">>
wEveryday == <<"e", "v", "e", "r", "y", "d", "a", "y">>
wRelaxed == <<"r", "e", "l", "a", "x", "e", "d">>
wBasic == <<"b", "a", "s", "i", "c">>
wTop == <<"t", "o", "p">>
wPants == <<"p", "a", "n", "t", "s">>
wShoes == <<"s", "h", "o", "e", "s">>
wRed == <<"r", "e", "d">>
wRedCap == <<"R", "e", "d">>
wRedUpper == <<"R", "E", "D">>
wWool == <<"w", "o", "o", "l">>
wCasualTee == <<"c", "a", "s", "u", "a", "l", " ", "t", "e", "e">>
wPaddedCasual == <<" ", "C", "a", "s", "u", "a", "l", " ">>
wBlank == <<" ">>
tCasualTee == <<"C", "a", "s", "u", "a", "l", " ", "T", "e", "e">>
tWool == <<"W", "o", "o", "l">>
tTee == <<"T", "e", "e">>
tCasualPants == <<"C", "a", "s", "u", "a", "l", " ", "P", "a", "n", "t", "s">>

(***************************************************************************)
(* Catalog sources: what the file at catalog_path may hold.                 *)
(***************************************************************************)
\* Records as they stand in the JSON source; a record may lack title, tags
\* or category.  Identifiers are distinct within a source.
RawT1 == [id |-> "t1", title |-> tCasualTee, price |-> 2, tags |-> <<wCasual, wRedCap>>, category |-> "top"]

RawT2 == [id |-> "t2", title |-> tWool, price |-> 4, tags |-> <<wBasic>>, category |-> "top"]

RawT3 == [id |-> "t3", price |-> 0, tags |-> <<tTee, wRedUpper, wCasual>>, category |-> "top"]

RawP1 == [id |-> "p1", title |-> tCasualPants, price |-> 2, category |-> "pants"]

RawPool == {RawT1, RawT2, RawT3, RawP1}

\* The sequences of at most n pairwise distinct members of S.
RECURSIVE DistinctSeqs(_, _)
DistinctSeqs(S, n) ==
    IF n = 0 THEN {<<>>}
    ELSE LET shorter == DistinctSeqs(S, n - 1)
         IN shorter \cup UNION {{Append(q, x) : x \in S \ Range(q)} : q \in shorter}

SourceKinds == {"array", "unreadable", "not_json", "not_array", "bad_record"}

Sources ==
    {[kind |-> "array", records |-> q] : q \in DistinctSeqs(RawPool, MaxCatalog)}
    \cup {[kind |-> k, records |-> <<RawT1>>] : k \in SourceKinds \ {"array"}}

(***************************************************************************)
(* CatalogService                                                           *)
(***************************************************************************)
\* CatalogServiceConfig.categories
Categories == <<"top", "pants", "shoes", "accessories">>

\* dict.setdefault(key, default)
SetDefault(p, key, default) == p @@ (key :> default)

\* The normalisation loop of _load.
Normalize(p) == SetDefault(SetDefault(SetDefault(p, "tags", <<>>), "title", <<>>), "category", "")

\* The try block of _load: read_text raises on an unreadable file,
\* json.loads on text that is not JSON, the loop on a value that is not
\* iterable and setdefault on an element that is not an object.
TryLoad(src) ==
    [raises |-> src.kind # "array",
     data |-> [i \in 1..Len(src.records) |-> Normalize(src.records[i])]]

\* _load whose except clause leaves the previous snapshot in place.
LoadKeepingOld(src, old) ==
    IF TryLoad(src).raises
    THEN [catalog |-> old, escaped |-> FALSE]
    ELSE [catalog |-> TryLoad(src).data, escaped |-> FALSE]

\* _load: the new snapshot, and whether an exception leaves _load.  The
\* except clause catches every failure and installs an empty snapshot.
Load(src, old) ==
    IF TryLoad(src).raises
    THEN [catalog |-> <<>>, escaped |-> FALSE]
    ELSE [catalog |-> TryLoad(src).data, escaped |-> FALSE]

\* int(round(total / n, 0)): Python rounds a tie to the even neighbour.
RoundDiv(total, n) ==
    LET q == total \div n
        r == total % n
    IN IF 2 * r < n THEN q
       ELSE IF 2 * r > n THEN q + 1
       ELSE IF q % 2 = 0 THEN q ELSE q + 1

\* The loop of stats(): min_price starts at float("inf") (None here),
\* max_price and total_price at 0.
RECURSIVE StatsLoop(_, _)
StatsLoop(cat, acc) ==
    IF cat = <<>> THEN acc
    ELSE LET p == Head(cat)
             c == p.category
         IN StatsLoop(Tail(cat),
                [cats |-> (c :> (IF c \in DOMAIN acc.cats THEN acc.cats[c] ELSE 0) + 1) @@ acc.cats,
                 min_price |-> IF acc.min_price = None THEN Some(p.price)
                               ELSE Some(Min(acc.min_price[1], p.price)),
                 max_price |-> Max(acc.max_price, p.price),
                 total_price |-> acc.total_price + p.price])

\* stats() after `total = len(self._catalog)`: the loop reads self._catalog
\* again, and the average divides by the total read first.
StatsFrom(total, cat) ==
    LET acc == StatsLoop(cat, [cats |-> <<>>, min_price |-> None, max_price |-> 0, total_price |-> 0])
    IN [totalProducts |-> total,
        categories |-> acc.cats,
        priceRange |-> [min |-> IF acc.min_price = None THEN 0 ELSE acc.min_price[1],
                        max |-> acc.max_price,
                        average |-> IF total > 0 THEN RoundDiv(acc.total_price, total) ELSE 0]]

\* stats() when both reads of self._catalog find the same snapshot.
Stats(cat) == StatsFrom(Len(cat), cat)

\* The partial-match test of _score_product: some token of the keyword is
\* a substring of the item text.
AnyTokenIn(kw, text) == \E i \in 1..Len(Split(kw)) : Split(kw)[i] # <<>> /\ Contains(text, Split(kw)[i])

\* _score_product that counts a keyword once however often it is listed.
ScoreKeywordsOnce(text, keywords) ==
    LET kws == {Lower(keywords[i]) : i \in 1..Len(keywords)}
    IN 2 * Cardinality({kw \in kws : Contains(text, kw)})
       + Cardinality({kw \in kws : ~Contains(text, kw) /\ AnyTokenIn(kw, text)})

\* _score_product, in half units.
RECURSIVE ScoreKeywords(_, _)
ScoreKeywords(text, keywords) ==
    IF keywords = <<>> THEN 0
    ELSE LET kw == Lower(Head(keywords))
         IN (IF Contains(text, kw) THEN 2
             ELSE IF AnyTokenIn(kw, text) THEN 1 ELSE 0)
            + ScoreKeywords(text, Tail(keywords))

ScoreProduct(product, keywords) ==
    ScoreKeywords(Lower(product.title \o <<" ">> \o Join(product.tags)), keywords)

\* [k.strip().lower() for k in keywords if k and k.strip()]
RECURSIVE NormalizeKeywords(_)
NormalizeKeywords(keywords) ==
    IF keywords = <<>> THEN <<>>
    ELSE (IF Strip(Head(keywords)) # <<>> THEN <<Lower(Strip(Head(keywords)))>> ELSE <<>>)
         \o NormalizeKeywords(Tail(keywords))

\* InsertByScore of a sort that is not stable: an element goes in front of
\* the elements of equal score.
InsertByScoreUnstable(sorted, x) ==
    LET k == Cardinality({i \in 1..Len(sorted) : sorted[i].score > x.score})
    IN SubSeq(sorted, 1, k) \o <<x>> \o SubSeq(sorted, k + 1, Len(sorted))

\* list.sort(key=score, reverse=True) is stable: an element goes behind
\* every element already placed whose score is at least its own.
InsertByScore(sorted, x) ==
    LET k == Cardinality({i \in 1..Len(sorted) : sorted[i].score >= x.score})
    IN SubSeq(sorted, 1, k) \o <<x>> \o SubSeq(sorted, k + 1, Len(sorted))

RECURSIVE SortByScore(_, _)
SortByScore(sorted, rest) ==
    IF rest = <<>> THEN sorted ELSE SortByScore(InsertByScore(sorted, Head(rest)), Tail(rest))

\* `product["score"] = s` written into the stored product itself.
WithScoreInPlace(product, s) ==
    [copy |-> ("score" :> s) @@ product, stored |-> ("score" :> s) @@ product]

\* `copy = dict(product); copy["score"] = s`: the item that goes into the
\* results, and what the write leaves in the stored product.
WithScore(product, s) ==
    [copy |-> ("score" :> s) @@ product, stored |-> product]

\* Scored with `s >= score_threshold` for `s > score_threshold`.
RECURSIVE ScoredInclusive(_, _, _, _)
ScoredInclusive(cat, keywords, categories, threshold) ==
    IF cat = <<>> THEN <<>>
    ELSE LET product == Head(cat)
             s == ScoreProduct(product, keywords)
         IN (IF product.category \in Range(categories) /\ s >= threshold
             THEN <<("score" :> s) @@ product>>
             ELSE <<>>)
            \o ScoredInclusive(Tail(cat), keywords, categories, threshold)

\* The scoring loop of search: the copies of the products of the requested
\* categories whose score exceeds the threshold, in catalog order.
RECURSIVE Scored(_, _, _, _)
Scored(cat, keywords, categories, threshold) ==
    IF cat = <<>> THEN <<>>
    ELSE LET product == Head(cat)
             s == ScoreProduct(product, keywords)
         IN (IF product.category \in Range(categories) /\ s > threshold
             THEN <<WithScore(product, s).copy>>
             ELSE <<>>)
            \o Scored(Tail(cat), keywords, categories, threshold)

\* The stored catalog after the scoring loop of search.
StoredAfterScoring(cat, keywords, categories, threshold) ==
    [i \in 1..Len(cat) |->
        LET s == ScoreProduct(cat[i], keywords)
        IN IF cat[i].category \in Range(categories) /\ s > threshold
           THEN WithScore(cat[i], s).stored
           ELSE cat[i]]

\* `categories or list(self.config.categories)`
EffectiveCategories(categories) ==
    IF categories = None \/ categories[1] = <<>> THEN Categories ELSE categories[1]

\* search(keywords, categories=, max_results=, score_threshold=)
Search(cat, keywords, categories, max_results, score_threshold) ==
    Prefix(SortByScore(<<>>, Scored(cat, NormalizeKeywords(keywords),
                                    EffectiveCategories(categories), score_threshold)),
           max_results)

\* self._catalog after search(...): sorting and slicing act on the results.
StoredAfterSearch(cat, keywords, categories, score_threshold) ==
    StoredAfterScoring(cat, NormalizeKeywords(keywords), EffectiveCategories(categories),
                       score_threshold)

\* The facets find_similar reads, in the order it reads them.
FacetKeys == <<"tags", "captions", "top", "pants", "shoes", "overall_style", "detected_style", "colors", "categories">>

\* The keyword-collecting loop of find_similar.
RECURSIVE CollectKeywords(_, _)
CollectKeywords(analysis, keys) ==
    IF keys = <<>> THEN <<>>
    ELSE (IF Head(keys) \in DOMAIN analysis THEN analysis[Head(keys)] ELSE <<>>)
         \o CollectKeywords(analysis, Tail(keys))

\* The sentinel find_similar uses for an absent max_price.
PriceCeiling == 1000000000

\* The price filter of find_similar.
PriceFilter(products, min_price, max_price) ==
    LET InRange(p) == OrElse(min_price, 0) <= p.price /\ p.price <= OrElse(max_price, PriceCeiling)
    IN IF min_price # None \/ max_price # None THEN SelectSeq(products, InRange) ELSE products

\* TagFilter comparing the tags as written, without lower().
TagFilterCaseSensitive(products, exclude_tags) ==
    LET ex == Range(exclude_tags[1])
        Clear(p) == ex \cap Range(p.tags) = {}
    IN IF exclude_tags # None /\ exclude_tags[1] # <<>> THEN SelectSeq(products, Clear) ELSE products

\* The excluded-tag filter of find_similar.
TagFilter(products, exclude_tags) ==
    LET ex == {Lower(t) : t \in Range(exclude_tags[1])}
        Clear(p) == ex \cap {Lower(t) : t \in Range(p.tags)} = {}
    IN IF exclude_tags # None /\ exclude_tags[1] # <<>> THEN SelectSeq(products, Clear) ELSE products

\* p.pop("score", None)
PopScore(p) == [k \in DOMAIN p \ {"score"} |-> p[k]]

\* max_results of find_similar's search without the factor 3.
SearchLimitAsAsked(max_per_category) == max_per_category

\* `max_results=max_per_category * 3`
SearchLimit(max_per_category) == max_per_category * 3

\* The body of find_similar's loop for one category.
SimilarIn(cat, keywords, c, max_per_category, include_score, min_price, max_price, exclude_tags) ==
    LET found == Search(cat, keywords, Some(<<c>>), SearchLimit(max_per_category), 0)
        kept == Prefix(TagFilter(PriceFilter(found, min_price, max_price), exclude_tags), max_per_category)
    IN IF include_score THEN kept ELSE [i \in 1..Len(kept) |-> PopScore(kept[i])]

\* find_similar(analysis, max_per_category=, include_score=, min_price=, max_price=, exclude_tags=)
FindSimilar(cat, analysis, max_per_category, include_score, min_price, max_price, exclude_tags) ==
    [c \in Range(Categories) |->
        SimilarIn(cat, CollectKeywords(analysis, FacetKeys), c, max_per_category,
                  include_score, min_price, max_price, exclude_tags)]

\* self._catalog after find_similar(...): one search per category; the
\* filters build new lists and p.pop("score", None) acts on the items
\* search returned.
RECURSIVE StoredAfterFindSimilar(_, _, _)
StoredAfterFindSimilar(cat, keywords, cs) ==
    IF cs = <<>> THEN cat
    ELSE StoredAfterFindSimilar(StoredAfterSearch(cat, keywords, Some(<<Head(cs)>>), 0),
                                keywords, Tail(cs))

(***************************************************************************)
(* LLMRanker and AzureOpenAIService                                         *)
(***************************************************************************)
\* LLMRanker.available(): a client or the HTTP fallback exists exactly when
\* the endpoint and the key are configured.
RankerAvailable(cfg) == cfg

\* AzureOpenAIService.available(): the same test on the same settings.
AzureAvailable(cfg) == cfg

\* RerankOut without the `[:top_k]` cut.
RerankOutUntruncated(data, top_k) ==
    [c \in Range(Categories) |-> IF c \in DOMAIN data THEN data[c] ELSE <<>>]

\* The tail of rerank: `out[cat] = [str(x) for x in (data.get(cat) or [])][:top_k]`
\* for the four categories.
RerankOut(data, top_k) ==
    [c \in Range(Categories) |-> Prefix(IF c \in DOMAIN data THEN data[c] ELSE <<>>, top_k)]

\* rerank(analysis, candidates, top_k): None when the ranker is not
\* available, when the call raises or when the reply does not parse to a
\* JSON object; otherwise the per-category id lists.
Rerank(cfg, reply, top_k) ==
    IF ~RankerAvailable(cfg) THEN None
    ELSE IF reply.kind # "object" THEN None
    ELSE Some(RerankOut(reply.data, top_k))

(***************************************************************************)
(* routes/recommend.py                                                      *)
(***************************************************************************)
\* RecommendationOptions.maxPerCategory's default
DefaultMaxPerCategory == 3

\* An options object with every field at its default.
DefaultOptions ==
    [maxPerCategory |-> Some(DefaultMaxPerCategory), minPrice |-> None, maxPrice |-> None,
     excludeTags |-> None]

\* MaxK that ignores the options.
MaxKIgnoringOptions(options) == 3

\* `(opts.maxPerCategory or 3) if hasattr(opts, "maxPerCategory") else 3`
MaxK(options) == IF options = None THEN 3 ELSE OrElse(options[1].maxPerCategory, 3)

\* `(opts.maxPerCategory or 3) * 4 if hasattr(opts, "maxPerCategory") else 12`
CandidateLimit(options) == IF options = None THEN 12 ELSE OrElse(options[1].maxPerCategory, 3) * 4

\* getattr(opts, name, None)
OptionField(options, name) ==
    IF options = None THEN None
    ELSE IF name \in DOMAIN options[1] THEN options[1][name] ELSE None

\* The fields RecommendationOptions declares.
DeclaredOptions == {"maxPerCategory", "minPrice", "maxPrice", "excludeTags"}

\* RecommendationOptions built from the `options` object of the request
\* body: pydantic keeps the declared fields and drops every other key.
ParseOptions(sent) ==
    IF sent = None THEN None ELSE Some([f \in DeclaredOptions |-> sent[1][f]])

\* `idx = {str(p["id"]): p for p in candidate_recs[cat]}` then idx[_id]:
\* a later candidate replaces an earlier one of the same id.
IdxGet(cands, id) ==
    cands[CHOOSE i \in 1..Len(cands) : cands[i].id = id /\ \A j \in (i + 1)..Len(cands) : cands[j].id # id]

\* PlaceRanked without the `if _id in idx` test: an unknown id is turned
\* into an item of its own.
RECURSIVE PlaceRankedUnchecked(_, _, _)
PlaceRankedUnchecked(cands, ids, recs) ==
    IF ids = <<>> THEN recs
    ELSE PlaceRankedUnchecked(cands, Tail(ids),
                              Append(recs, IF \E i \in 1..Len(cands) : cands[i].id = Head(ids)
                                           THEN IdxGet(cands, Head(ids))
                                           ELSE [id |-> Head(ids), title |-> <<>>, price |-> 0,
                                                 tags |-> <<>>, category |-> ""]))

\* `for _id in ids.get(cat, []): if _id in idx: recs[cat].append(idx[_id])`
RECURSIVE PlaceRanked(_, _, _)
PlaceRanked(cands, ids, recs) ==
    IF ids = <<>> THEN recs
    ELSE PlaceRanked(cands, Tail(ids),
                     IF \E i \in 1..Len(cands) : cands[i].id = Head(ids)
                     THEN Append(recs, IdxGet(cands, Head(ids)))
                     ELSE recs)

\* FillUploadLoop without the `if p not in recs[cat]` test.
RECURSIVE FillUploadLoopNoSkip(_, _, _)
FillUploadLoopNoSkip(rest, recs, max_k) ==
    IF rest = <<>> THEN recs
    ELSE IF Len(recs) + 1 >= max_k THEN Append(recs, Head(rest))
    ELSE FillUploadLoopNoSkip(Tail(rest), Append(recs, Head(rest)), max_k)

\* The fill loop of recommend_from_upload: append, then test the length.
RECURSIVE FillUploadLoop(_, _, _)
FillUploadLoop(rest, recs, max_k) ==
    IF rest = <<>> THEN recs
    ELSE LET next == IF Head(rest) \notin Range(recs) THEN Append(recs, Head(rest)) ELSE recs
         IN IF Len(next) >= max_k THEN next ELSE FillUploadLoop(Tail(rest), next, max_k)

\* Reconciliation for one category in recommend_from_upload.
ReconcileUpload(cands, ids, max_k) ==
    LET placed == PlaceRanked(cands, ids, <<>>)
    IN IF Len(placed) < max_k THEN FillUploadLoop(cands, placed, max_k) ELSE placed

\* The fill loop of recommend_from_fitting: test the length, then append.
RECURSIVE FillFittingLoop(_, _, _)
FillFittingLoop(rest, recs, max_k) ==
    IF rest = <<>> \/ Len(recs) >= max_k THEN recs
    ELSE FillFittingLoop(Tail(rest),
                         IF Head(rest) \notin Range(recs) THEN Append(recs, Head(rest)) ELSE recs,
                         max_k)

\* Reconciliation for one category in recommend_from_fitting.
ReconcileFitting(cands, ids, max_k) == FillFittingLoop(cands, PlaceRanked(cands, ids, <<>>), max_k)

\* `ids.get(cat, [])`
IdsFor(ids, c) == IF c \in DOMAIN ids THEN ids[c] ELSE <<>>

\* RecommendationItem(**p)
ToItem(p) ==
    [id |-> p.id, title |-> p.title, price |-> p.price, tags |-> p.tags, category |-> p.category,
     imageUrl |-> IF "imageUrl" \in DOMAIN p THEN Some(p.imageUrl) ELSE None,
     score |-> IF "score" \in DOMAIN p THEN Some(p.score) ELSE None]

\* The reconciliation loop of the handler named.
Reconcile(handler, cands, ids, max_k) ==
    IF handler = "recommend_from_upload" THEN ReconcileUpload(cands, ids, max_k)
    ELSE ReconcileFitting(cands, ids, max_k)

\* The rerank branch of both handlers: `if ids:` reconciles, the two else
\* branches cut the candidates.
Recommendations(handler, cfg, candidate_recs, ids, max_k, use_llm) ==
    IF use_llm /\ RankerAvailable(cfg) /\ ids # None /\ DOMAIN ids[1] # {}
    THEN [c \in DOMAIN candidate_recs |-> Reconcile(handler, candidate_recs[c], IdsFor(ids[1], c), max_k)]
    ELSE [c \in DOMAIN candidate_recs |-> Prefix(candidate_recs[c], max_k)]

\* The fallback analysis recommend_from_upload builds from the request.
UploadFallback(req) ==
    LET style == IF req.person # None THEN ("overall_style" :> <<wCasual, wEveryday>>) ELSE <<>>
        Hint(k, word) == IF req.clothingItems # None /\ req.clothingItems[1][k] # None
                         THEN (k :> <<word, wBasic, wCasual>>) ELSE <<>>
    IN style @@ Hint("top", wTop) @@ Hint("pants", wPants) @@ Hint("shoes", wShoes)

\* The default analysis of recommend_from_fitting.
FittingDefault == [overall_style |-> <<wCasual, wRelaxed>>, categories |-> <<wTop, wPants, wShoes>>]

\* analysisMethod set from the outcome of the rerank: "ai" when the
\* reranker's ids ordered the result.
ResolvedMethodFromRerank(analysis_method, ids) ==
    IF ids # None /\ DOMAIN ids[1] # {} THEN "ai" ELSE "fallback"

\* `analysisMethod=analysis_method` of the response: the value the analysis
\* step left; `ids` plays no part in it.
ResolvedMethod(analysis_method, ids) == analysis_method

\* The part of both handlers after the analysis is known.
Respond(handler, cat, cfg, options, reply, analysis, analysis_method) ==
    LET candidate_recs == FindSimilar(cat, analysis, CandidateLimit(options), TRUE,
                                      OptionField(options, "minPrice"),
                                      OptionField(options, "maxPrice"),
                                      OptionField(options, "excludeTags"))
        max_k == MaxK(options)
        user_llm_pref == OptionField(options, "useLLMRerank")
        use_llm == IF user_llm_pref # None THEN user_llm_pref[1] ELSE RankerAvailable(cfg)
        ids == IF use_llm /\ RankerAvailable(cfg) THEN Rerank(cfg, reply, max_k) ELSE None
        recs == Recommendations(handler, cfg, candidate_recs, ids, max_k, use_llm)
    IN [locals |-> [analysis |-> analysis, candidate_recs |-> candidate_recs, max_k |-> max_k,
                    use_llm |-> use_llm, called |-> use_llm /\ RankerAvailable(cfg), ids |-> ids],
        ret |-> [recommendations |-> [c \in DOMAIN recs |-> [i \in 1..Len(recs[c]) |-> ToItem(recs[c][i])]],
                 analysisMethod |-> ResolvedMethod(analysis_method, ids),
                 styleAnalysis |-> IF analysis_method = "ai" THEN Some(analysis) ELSE None]]

\* recommend_from_upload(req)
RecommendFromUpload(cat, cfg, req, azure, reply) ==
    LET analysed == AzureAvailable(cfg) /\ azure.kind = "ok"
        first == IF analysed THEN azure.analysis ELSE <<>>
        analysis == IF first = <<>> THEN UploadFallback(req) ELSE first
    IN Respond("recommend_from_upload", cat, cfg, req.options, reply, analysis,
               IF analysed THEN "ai" ELSE "fallback")

\* recommend_from_fitting(req)
RecommendFromFitting(cat, cfg, req, azure, reply) ==
    LET analysed == AzureAvailable(cfg) /\ req.generatedImage # <<>> /\ azure.kind = "ok"
        analysis == IF analysed THEN azure.analysis ELSE FittingDefault
    IN Respond("recommend_from_fitting", cat, cfg, req.options, reply, analysis,
               IF analysed THEN "ai" ELSE "fallback")

(***************************************************************************)
(* Inputs                                                                   *)
(***************************************************************************)
KeywordLists ==
    {<<wCasual>>, <<wPaddedCasual, wBlank>>, <<wCasualTee>>, <<wBasic, wCasual>>, <<wWool, wWool>>}

CategoryLists == {Some(<<>>), Some(<<"top">>), Some(<<"pants", "shoes">>)}

Thresholds == {0, 2}

AiAnalysis == [detected_style |-> <<wCasual>>, colors |-> <<wRed>>, tags |-> <<wCasualTee>>]

Analyses == {AiAnalysis, FittingDefault}

PricePairs ==
    {<<None, None>>, <<Some(0), None>>, <<None, Some(0)>>, <<Some(2), Some(3)>>,
     <<Some(3), Some(2)>>}

ExcludeLists == {None, Some(<<>>), Some(<<wRed, wWool>>)}

RecOptions ==
    {None,
     Some([DefaultOptions EXCEPT !.maxPerCategory = Some(1)]),
     Some([DefaultOptions EXCEPT !.maxPerCategory = Some(2), !.maxPrice = Some(0)]),
     Some([DefaultOptions EXCEPT !.maxPerCategory = Some(2), !.minPrice = Some(1),
                                 !.excludeTags = Some(<<wBasic>>)])}

Image == <<"i", "m", "g">>

NoClothing == [top |-> None, pants |-> None, shoes |-> None]

UploadRequests ==
    {[person |-> None, clothingItems |-> None],
     [person |-> Some(Image), clothingItems |-> Some([NoClothing EXCEPT !.top = Some(Image)])]}

FittingRequests == {[generatedImage |-> <<>>], [generatedImage |-> Image]}

AzureOutcomes == {[kind |-> "raises", analysis |-> <<>>], [kind |-> "ok", analysis |-> AiAnalysis]}

ReplyIds == {"t1", "t2", "zz"}

RECURSIVE SeqsUpTo(_, _)
SeqsUpTo(S, n) ==
    IF n = 0 THEN {<<>>}
    ELSE LET shorter == SeqsUpTo(S, n - 1)
         IN shorter \cup {Append(q, x) : q \in shorter, x \in S}

\* What the ranking model may answer: the call raises, the text is not
\* JSON, the JSON is not an object, or an object that gives id lists for
\* some of the categories.
Replies ==
    {[kind |-> k, data |-> <<>>] : k \in {"raises", "not_json", "not_object"}}
    \cup {[kind |-> "object", data |-> ("top" :> q) @@ ("pants" :> q)] : q \in SeqsUpTo(ReplyIds, MaxReply)}

NotCalled == [kind |-> "not_called", data |-> <<>>]

(***************************************************************************)
(* Specification                                                            *)
(***************************************************************************)
\* GEMINI_MAX_RETRIES when the variable is not set.
DefaultMaxRetries == 3

\* GeminiImageService.__init__ with no key in the environment and neither
\* client library installed; client is the key the client of the service
\* (self._new_client, or the configuration of the legacy library) was last
\* made for.
GeminiUnset ==
    [api_keys |-> <<>>, max_retries |-> DefaultMaxRetries, sdk |-> "none", client |-> None]

Idle ==
    /\ op = "idle"
    /\ args = <<>>
    /\ locals = <<>>
    /\ ret = <<>>

\* CatalogService.__init__ under the process-wide settings.
Init ==
    /\ source \in Sources
    /\ catalog = Load(source, <<>>).catalog
    /\ raised = Load(source, <<>>).escaped
    /\ configured \in BOOLEAN
    /\ gemini = GeminiUnset
    /\ Idle

\* reload(): _load, and False when an exception leaves it.
Reload ==
    /\ op = "idle"
    /\ \E src \in Sources :
        /\ source' = src
        /\ catalog' = Load(src, catalog).catalog
        /\ ret' = ~Load(src, catalog).escaped
        /\ args' = <<>>
    /\ op' = "reload"
    /\ locals' = <<>>
    /\ raised' = FALSE
    /\ UNCHANGED <<configured, gemini>>

GetAll ==
    /\ op = "idle"
    /\ op' = "get_all"
    /\ args' = <<>>
    /\ locals' = <<>>
    /\ ret' = catalog
    /\ raised' = FALSE
    /\ UNCHANGED <<catalog, source, configured, gemini>>

StatsCall ==
    /\ op = "idle"
    /\ op' = "stats"
    /\ args' = <<>>
    /\ locals' = <<>>
    /\ ret' = Stats(catalog)
    /\ raised' = FALSE
    /\ UNCHANGED <<catalog, source, configured, gemini>>

SearchCall ==
    /\ op = "idle"
    /\ \E keywords \in KeywordLists, categories \in CategoryLists,
          max_results \in 0..MaxResultsBound, score_threshold \in Thresholds :
        /\ args' = [keywords |-> keywords, categories |-> categories,
                    max_results |-> max_results, score_threshold |-> score_threshold]
        /\ ret' = Search(catalog, keywords, categories, max_results, score_threshold)
        /\ catalog' = StoredAfterSearch(catalog, keywords, categories, score_threshold)
    /\ op' = "search"
    /\ locals' = <<>>
    /\ raised' = FALSE
    /\ UNCHANGED <<source, configured, gemini>>

FindSimilarCall ==
    /\ op = "idle"
    /\ \E analysis \in Analyses, max_per_category \in 1..MaxPerCategoryBound,
          include_score \in BOOLEAN, prices \in PricePairs, exclude_tags \in ExcludeLists :
        /\ args' = [analysis |-> analysis, max_per_category |-> max_per_category,
                    include_score |-> include_score, min_price |-> prices[1],
                    max_price |-> prices[2], exclude_tags |-> exclude_tags]
        /\ ret' = FindSimilar(catalog, analysis, max_per_category, include_score,
                              prices[1], prices[2], exclude_tags)
        /\ catalog' = StoredAfterFindSimilar(catalog, CollectKeywords(analysis, FacetKeys), Categories)
    /\ op' = "find_similar"
    /\ locals' = <<>>
    /\ raised' = FALSE
    /\ UNCHANGED <<source, configured, gemini>>

\* The external outcomes a handler meets: none for a service it never calls.
AzureMet(called) == IF called THEN AzureOutcomes ELSE {[kind |-> "not_called", analysis |-> <<>>]}

ReplyMet(called) == IF called THEN Replies ELSE {NotCalled}

RecommendFromUploadCall ==
    /\ op = "idle"
    /\ \E r \in UploadRequests, options \in RecOptions,
          azure \in AzureMet(AzureAvailable(configured)),
          reply \in ReplyMet(RankerAvailable(configured)) :
        LET req == r @@ [options |-> options]
            out == RecommendFromUpload(catalog, configured, req, azure, reply)
        IN /\ args' = [req |-> req, azure |-> azure, reply |-> reply]
           /\ locals' = out.locals
           /\ ret' = out.ret
    /\ op' = "recommend_from_upload"
    /\ raised' = FALSE
    /\ UNCHANGED <<catalog, source, configured, gemini>>

RecommendFromFittingCall ==
    /\ op = "idle"
    /\ \E r \in FittingRequests, options \in RecOptions,
          reply \in ReplyMet(RankerAvailable(configured)) :
        \E azure \in AzureMet(AzureAvailable(configured) /\ r.generatedImage # <<>>) :
        LET req == r @@ [options |-> options]
            out == RecommendFromFitting(catalog, configured, req, azure, reply)
        IN /\ args' = [req |-> req, azure |-> azure, reply |-> reply]
           /\ locals' = out.locals
           /\ ret' = out.ret
    /\ op' = "recommend_from_fitting"
    /\ raised' = FALSE
    /\ UNCHANGED <<catalog, source, configured, gemini>>

\* The response is delivered and the request's values are discarded.
Return ==
    /\ op # "idle"
    /\ op' = "idle"
    /\ args' = <<>>
    /\ locals' = <<>>
    /\ ret' = <<>>
    /\ raised' = FALSE
    /\ UNCHANGED <<catalog, source, configured, gemini>>

Next ==
    \/ Reload
    \/ GetAll
    \/ StatsCall
    \/ SearchCall
    \/ FindSimilarCall
    \/ RecommendFromUploadCall
    \/ RecommendFromFittingCall
    \/ Return

Spec == Init /\ [][Next]_vars

(***************************************************************************)
(* Properties of the recommendation handlers                                *)
(***************************************************************************)
IsRecommend == op \in {"recommend_from_upload", "recommend_from_fitting"}

\* The maxPerCategory a request asks for: 3 when the options or the field
\* are absent.
RequestedMax(options) ==
    IF options = None \/ options[1].maxPerCategory = None THEN 3
    ELSE options[1].maxPerCategory[1]

IdsOf(items) == [i \in 1..Len(items) |-> items[i].id]

\* C1: each category list returned by recommend_from_upload and by
\* recommend_from_fitting has at most maxPerCategory items (3 when the
\* options or maxPerCategory are absent), whatever the reranker answered.
C1_AtMostMaxPerCategory ==
    IsRecommend =>
        \A c \in DOMAIN ret.recommendations :
            Len(ret.recommendations[c]) <= RequestedMax(args.req.options)

\* The ranking model answered more ids than asked for, more candidates
\* than maxPerCategory exist, and the list is cut to maxPerCategory.
C1_Witness ==
    /\ IsRecommend
    /\ args.reply.kind = "object"
    /\ Len(args.reply.data["top"]) > RequestedMax(args.req.options)
    /\ Len(locals.candidate_recs["top"]) > RequestedMax(args.req.options)
    /\ Len(ret.recommendations["top"]) = RequestedMax(args.req.options)

\* C2: no category's final recommendation list holds two items with the
\* same id, for every candidate set and every reranker reply.
C2_NoDuplicateIds ==
    IsRecommend =>
        \A c \in DOMAIN ret.recommendations :
            \A i, j \in 1..Len(ret.recommendations[c]) :
                i # j => ret.recommendations[c][i].id # ret.recommendations[c][j].id

\* The candidates named by `ids`, in the order of `ids`.
RankedPart(cands, ids) ==
    LET Known(id) == \E p \in Range(cands) : p.id = id
        known == SelectSeq(ids, Known)
    IN [i \in 1..Len(known) |-> CHOOSE p \in Range(cands) : p.id = known[i]]

\* The candidates not in `placed`, in candidate order.
RemainingPart(cands, placed) ==
    LET Fresh(p) == p \notin Range(placed)
    IN SelectSeq(cands, Fresh)

\* C3: when the reranker returns a result, each category's final list is
\* the reranked ids that are among the category's candidates, in reranked
\* order, followed by the remaining candidates in score order, cut at
\* maxPerCategory.
C3_RankedThenFill ==
    (IsRecommend /\ locals.ids # None) =>
        \A c \in DOMAIN ret.recommendations :
            LET cands == locals.candidate_recs[c]
                ranked == RankedPart(cands, locals.ids[1][c])
            IN IdsOf(ret.recommendations[c])
               = IdsOf(Prefix(ranked \o RemainingPart(cands, ranked), RequestedMax(args.req.options)))

\* Candidates [A, B, C], the reranker returns [B], maxPerCategory 2: the
\* list is [B, A].
C3_Witness ==
    /\ IsRecommend
    /\ locals.ids # None
    /\ RequestedMax(args.req.options) = 2
    /\ Len(locals.candidate_recs["top"]) = 3
    /\ locals.ids[1]["top"] = <<locals.candidate_recs["top"][2].id>>
    /\ IdsOf(ret.recommendations["top"])
       = <<locals.candidate_recs["top"][2].id, locals.candidate_recs["top"][1].id>>

\* C4: every item of a category's final list is one of that category's
\* candidates; an id the reranker invented, or an id of another category,
\* never appears.
C4_OnlyCandidates ==
    IsRecommend =>
        \A c \in DOMAIN ret.recommendations :
            \A i \in 1..Len(ret.recommendations[c]) :
                ret.recommendations[c][i] \in {ToItem(p) : p \in Range(locals.candidate_recs[c])}

\* The reranker's lists name an invented id and, for pants, a candidate of
\* the category top, and both categories still get recommendations.
C4_Witness ==
    /\ IsRecommend
    /\ locals.ids # None
    /\ "zz" \in Range(locals.ids[1]["top"])
    /\ \E id \in Range(locals.ids[1]["pants"]) :
          /\ id \in Range(IdsOf(locals.candidate_recs["top"]))
          /\ id \notin Range(IdsOf(locals.candidate_recs["pants"]))
    /\ ret.recommendations["top"] # <<>>
    /\ ret.recommendations["pants"] # <<>>

\* C5: when the reranker is not used, is unavailable, fails, answers
\* something unparseable or returns empty id lists, each category's result
\* is the first maxPerCategory candidates in score order.
C5_FallbackIsPrefix ==
    (IsRecommend /\ (locals.ids = None \/ \A c \in DOMAIN locals.ids[1] : locals.ids[1][c] = <<>>)) =>
        \A c \in DOMAIN ret.recommendations :
            ret.recommendations[c]
            = [i \in 1..Min(RequestedMax(args.req.options), Len(locals.candidate_recs[c])) |->
                   ToItem(locals.candidate_recs[c][i])]

\* The reranker returned empty lists; of three candidates the first two
\* are recommended.
C5_Witness ==
    /\ IsRecommend
    /\ locals.ids # None
    /\ \A c \in DOMAIN locals.ids[1] : locals.ids[1][c] = <<>>
    /\ RequestedMax(args.req.options) = 2
    /\ Len(locals.candidate_recs["top"]) = 3
    /\ Len(ret.recommendations["top"]) = 2

\* The `if ids:` branch was taken: the reranker's ids ordered the result.
RerankUsed == locals.ids # None /\ DOMAIN locals.ids[1] # {}

\* C21 as stated: the method attached to a recommendation response is "ai"
\* exactly when the reranker's model output was used to order the result,
\* and "fallback" in every other case.
C21_MethodReflectsRerank ==
    IsRecommend => (ret.analysisMethod = IF RerankUsed THEN "ai" ELSE "fallback")

\* C21 amended: the method attached to a recommendation response is "ai"
\* exactly when the style analysis service was called and returned, and
\* "fallback" when it is unavailable, was not called or raised; the style
\* analysis is attached exactly when the method is "ai"; what the reranker
\* did plays no part.
C21_MethodReflectsAnalysis ==
    IsRecommend =>
        /\ ret.analysisMethod = IF args.azure.kind = "ok" THEN "ai" ELSE "fallback"
        /\ ret.styleAnalysis = IF args.azure.kind = "ok" THEN Some(locals.analysis) ELSE None

\* The style analysis returned, the ranking model's call raised and the
\* candidates were recommended in score order: the method is "ai".
C21_Witness ==
    /\ IsRecommend
    /\ args.azure.kind = "ok"
    /\ args.reply.kind = "raises"
    /\ ~RerankUsed
    /\ ret.recommendations["top"] # <<>>
    /\ ret.analysisMethod = "ai"

(***************************************************************************)
(* Properties of the catalog service                                        *)
(***************************************************************************)
\* The lists a state returns per category: find_similar's own result, or
\* a handler's recommendations.
ListsReturned ==
    IF op = "find_similar" THEN ret
    ELSE IF IsRecommend THEN ret.recommendations
    ELSE <<>>

\* The price bounds and excluded tags in force in a state.
MinPriceAsked == IF op = "find_similar" THEN args.min_price ELSE OptionField(args.req.options, "minPrice")

MaxPriceAsked == IF op = "find_similar" THEN args.max_price ELSE OptionField(args.req.options, "maxPrice")

ExcludeAsked == IF op = "find_similar" THEN args.exclude_tags ELSE OptionField(args.req.options, "excludeTags")

\* C6: every item returned by find_similar, and every recommended item,
\* has lo <= price <= hi, where lo is minPrice (0 when absent) and hi is
\* maxPrice (unbounded when absent); an inverted range yields nothing.
C6_PriceWithinBounds ==
    (op = "find_similar" \/ IsRecommend) =>
        \A c \in DOMAIN ListsReturned :
            \A i \in 1..Len(ListsReturned[c]) :
                /\ MinPriceAsked # None => MinPriceAsked[1] <= ListsReturned[c][i].price
                /\ MaxPriceAsked # None => ListsReturned[c][i].price <= MaxPriceAsked[1]
                /\ ~(MinPriceAsked # None /\ MaxPriceAsked # None /\ MinPriceAsked[1] > MaxPriceAsked[1])

\* C7: with a non-empty excludeTags, no item returned by find_similar and
\* no recommended item has a tag equal, case-insensitively, to an excluded
\* tag.
C7_NoExcludedTag ==
    ((op = "find_similar" \/ IsRecommend) /\ ExcludeAsked # None) =>
        \A c \in DOMAIN ListsReturned :
            \A i \in 1..Len(ListsReturned[c]) :
                \A t \in Range(ListsReturned[c][i].tags), e \in Range(ExcludeAsked[1]) :
                    Lower(t) # Lower(e)

\* find_similar excludes "red" while the catalog holds a matching product
\* tagged "Red"; that product is left out and another one is returned.
C7_Witness ==
    /\ op = "find_similar"
    /\ args.exclude_tags = Some(<<wRed, wWool>>)
    /\ args.min_price = None /\ args.max_price = None
    /\ \E i \in 1..Len(catalog) :
          /\ wRedCap \in Range(catalog[i].tags)
          /\ ScoreProduct(catalog[i], NormalizeKeywords(CollectKeywords(args.analysis, FacetKeys))) > 0
    /\ \E c \in DOMAIN ret : ret[c] # <<>>

\* A product matches a keyword when the keyword, or one of its tokens, is
\* a substring of its lower-cased title and tags.
MatchesSome(product, keywords) ==
    LET text == Lower(product.title \o <<" ">> \o Join(product.tags))
    IN \E k \in 1..Len(keywords) :
           \/ Contains(text, Lower(Strip(keywords[k]))) /\ Strip(keywords[k]) # <<>>
           \/ \E tok \in Range(Split(Lower(keywords[k]))) : Contains(text, tok)

\* The catalog product a returned copy was made from.
Original(item) == PopScore(item)

\* C8 as stated: search returns only products whose category is in the
\* requested categories and whose score is strictly greater than the
\* threshold; with threshold 0 a product matching no keyword is never
\* returned.
C8_RequestedCategoryAndScore ==
    op = "search" =>
        \A i \in 1..Len(ret) :
            /\ ret[i].category \in Range(args.categories[1])
            /\ ScoreProduct(Original(ret[i]), NormalizeKeywords(args.keywords)) > args.score_threshold
            /\ args.score_threshold = 0 => MatchesSome(Original(ret[i]), args.keywords)

\* C8 amended: as C8, where an empty category list stands for all the
\* configured categories.
C8_EffectiveCategoryAndScore ==
    op = "search" =>
        \A i \in 1..Len(ret) :
            /\ \/ ret[i].category \in Range(args.categories[1])
               \/ args.categories[1] = <<>> /\ ret[i].category \in Range(Categories)
            /\ ScoreProduct(Original(ret[i]), NormalizeKeywords(args.keywords)) > args.score_threshold
            /\ args.score_threshold = 0 => MatchesSome(Original(ret[i]), args.keywords)

\* Keyword "casual" over a catalog holding the matching t1 and the
\* non-matching t2, category top, threshold 0: t1 is returned, t2 is not.
C8_Witness ==
    /\ op = "search"
    /\ args.keywords = <<wCasual>>
    /\ args.categories = Some(<<"top">>)
    /\ args.score_threshold = 0
    /\ \E i \in 1..Len(catalog) : catalog[i].id = "t2"
    /\ "t1" \in Range(IdsOf(ret))
    /\ "t2" \notin Range(IdsOf(ret))

\* The position in the snapshot of the product a returned copy was made
\* from.
PositionOf(item) == CHOOSE k \in 1..Len(catalog) : catalog[k] = Original(item)

\* The positions of the products search has to rank.
Qualifying ==
    {k \in 1..Len(catalog) :
        /\ catalog[k].category \in Range(EffectiveCategories(args.categories))
        /\ ScoreProduct(catalog[k], NormalizeKeywords(args.keywords)) > args.score_threshold}

\* C9: search returns its results by score descending, equal scores in
\* catalog order, and the output is the first maxResults entries of that
\* ordering; the list is therefore a function of catalog, keywords and
\* options.
C9_SortedStableTruncated ==
    op = "search" =>
        /\ \A i, j \in 1..Len(ret) :
               i < j => \/ ret[i].score > ret[j].score
                        \/ ret[i].score = ret[j].score /\ PositionOf(ret[i]) < PositionOf(ret[j])
        /\ Len(ret) = Min(args.max_results, Cardinality(Qualifying))
        /\ \A i \in 1..Len(ret) :
               /\ PositionOf(ret[i]) \in Qualifying
               /\ ret[i].score = ScoreProduct(Original(ret[i]), NormalizeKeywords(args.keywords))
        /\ \A k \in Qualifying \ {PositionOf(ret[i]) : i \in 1..Len(ret)} :
               \A i \in 1..Len(ret) :
                   \/ ret[i].score > ScoreProduct(catalog[k], NormalizeKeywords(args.keywords))
                   \/ /\ ret[i].score = ScoreProduct(catalog[k], NormalizeKeywords(args.keywords))
                      /\ PositionOf(ret[i]) < k

\* Two returned products tie on score and a qualifying product is cut off
\* by maxResults.
C9_Witness ==
    /\ op = "search"
    /\ Len(ret) = 2
    /\ ret[1].score = ret[2].score
    /\ Cardinality(Qualifying) > args.max_results

\* C10: after a load that failed, at construction or on reload, no
\* exception has reached the caller, the snapshot is empty, search and
\* find_similar return no item and stats reports zero products and a price
\* range of zeros.
C10_FailedLoadEmpties ==
    source.kind # "array" =>
        /\ ~raised
        /\ catalog = <<>>
        /\ op = "search" => ret = <<>>
        /\ op = "find_similar" => \A c \in DOMAIN ret : ret[c] = <<>>
        /\ op = "stats" => /\ ret.totalProducts = 0
                           /\ ret.priceRange = [min |-> 0, max |-> 0, average |-> 0]

\* stats is answered after the source turned out not to be JSON.
C10_Witness ==
    /\ op = "stats"
    /\ source.kind = "not_json"
    /\ ret.totalProducts = 0

(***************************************************************************)
(* Readers running while reload() runs                                      *)
(*                                                                         *)
(* The endpoints are plain `def` functions, which FastAPI runs on a thread  *)
(* pool, and CatalogService takes no lock.  reload() installs the new list  *)
(* with one assignment to self._catalog; a reader evaluates self._catalog   *)
(* each time its code names it.  locals.read lists the snapshots the        *)
(* reader found, in the order of its reads.                                 *)
(***************************************************************************)
\* At most this many reloads run during one reader call.
MaxReloads == 2

\* The sources the concurrent reload finds.
ReloadSources == {s \in Sources : s.kind \in {"array", "unreadable"} /\ Len(s.records) <= 1}

InitReload ==
    /\ source \in ReloadSources
    /\ catalog = Load(source, <<>>).catalog
    /\ raised = FALSE
    /\ configured = FALSE
    /\ gemini = GeminiUnset
    /\ Idle

\* reload() on another thread: `self._catalog = data`, or `= []` in the
\* except clause.
ReloadConcurrently ==
    /\ \E src \in ReloadSources :
        /\ source' = src
        /\ catalog' = Load(src, catalog).catalog
    /\ \/ op = "idle" /\ UNCHANGED locals
       \/ /\ op # "idle"
          /\ locals.pc # "done"
          /\ locals.reloads < MaxReloads
          /\ locals' = [locals EXCEPT !.reloads = @ + 1]
    /\ UNCHANGED <<configured, gemini, op, args, ret, raised>>

\* find_similar up to its loop over the categories: the keywords are
\* collected from the analysis, the catalog is not read yet.
FindSimilarBegin ==
    /\ op = "idle"
    /\ \E analysis \in Analyses, include_score \in BOOLEAN :
        args' = [analysis |-> analysis, max_per_category |-> 1,
                 include_score |-> include_score, min_price |-> None,
                 max_price |-> None, exclude_tags |-> None]
    /\ op' = "find_similar"
    /\ locals' = [pc |-> "search", results |-> <<>>, read |-> <<>>, reloads |-> 0]
    /\ ret' = <<>>
    /\ raised' = FALSE
    /\ UNCHANGED <<catalog, source, configured, gemini>>

\* One pass of find_similar's loop: self.search(...) iterates the list
\* self._catalog names at that moment; after the last category the
\* results are returned.
FindSimilarSearch ==
    /\ op = "find_similar"
    /\ locals.pc = "search"
    /\ LET c == Categories[Len(locals.read) + 1]
           found == SimilarIn(catalog, CollectKeywords(args.analysis, FacetKeys), c,
                              args.max_per_category, args.include_score,
                              args.min_price, args.max_price, args.exclude_tags)
           results == (c :> found) @@ locals.results
           last == Len(locals.read) + 1 = Len(Categories)
       IN /\ locals' = [locals EXCEPT !.results = results,
                                      !.read = Append(@, catalog),
                                      !.pc = IF last THEN "done" ELSE "search"]
          /\ ret' = IF last THEN results ELSE ret
    /\ UNCHANGED <<catalog, source, configured, gemini, op, args, raised>>

\* stats(): `total = len(self._catalog)`.
StatsLen ==
    /\ op = "idle"
    /\ op' = "stats"
    /\ args' = <<>>
    /\ locals' = [pc |-> "loop", total |-> Len(catalog), read |-> <<catalog>>, reloads |-> 0]
    /\ ret' = <<>>
    /\ raised' = FALSE
    /\ UNCHANGED <<catalog, source, configured, gemini>>

\* stats(): `for p in self._catalog` and the rest of the function.
StatsAggregate ==
    /\ op = "stats"
    /\ locals.pc = "loop"
    /\ locals' = [locals EXCEPT !.read = Append(@, catalog), !.pc = "done"]
    /\ ret' = StatsFrom(locals.total, catalog)
    /\ UNCHANGED <<catalog, source, configured, gemini, op, args, raised>>

\* The reader's result is delivered.
ReaderReturn ==
    /\ op # "idle"
    /\ locals.pc = "done"
    /\ op' = "idle"
    /\ args' = <<>>
    /\ locals' = <<>>
    /\ ret' = <<>>
    /\ UNCHANGED <<catalog, source, configured, gemini, raised>>

NextReload ==
    \/ ReloadConcurrently
    \/ FindSimilarBegin
    \/ FindSimilarSearch
    \/ StatsLen
    \/ StatsAggregate
    \/ ReaderReturn

SpecReload == InitReload /\ [][NextReload]_vars

\* What the finished reader would have returned from snapshot `cat` alone.
FromSnapshot(cat) ==
    IF op = "stats" THEN Stats(cat)
    ELSE FindSimilar(cat, args.analysis, args.max_per_category, args.include_score,
                     args.min_price, args.max_price, args.exclude_tags)

\* C11: a find_similar call and a stats call that run while reload() runs
\* return what one single snapshot gives, the one before the reload or the
\* one after it: the result is never put together from two snapshots.
C11_OneSnapshotPerCall ==
    (op \in {"find_similar", "stats"} /\ locals.pc = "done") =>
        \E i \in 1..Len(locals.read) : ret = FromSnapshot(locals.read[i])

\* C12: between reloads the stored catalog is what the last load made of
\* its source, same products, same order, same fields, whatever search,
\* find_similar (with or without scores), get_all and stats calls were
\* made since; no stored product carries a 'score' field.
C12_SnapshotReadOnly ==
    /\ catalog = Load(source, <<>>).catalog
    /\ \A i \in 1..Len(catalog) : "score" \notin DOMAIN catalog[i]

\* find_similar without scores has returned a product, whose copy had its
\* score written and popped again, and the stored product is untouched.
C12_Witness ==
    /\ op = "find_similar"
    /\ ~args.include_score
    /\ \E c \in DOMAIN ret : \E i \in 1..Len(ret[c]) : \E j \in 1..Len(catalog) :
          /\ "score" \notin DOMAIN ret[c][i]
          /\ ret[c][i] = catalog[j]

(***************************************************************************)
(* GeminiImageService (services/gemini_image_service.py) and the generate   *)
(* endpoint (routes/generate.py)                                            *)
(*                                                                         *)
(* A call is followed step by step: locals holds the position (pc), the     *)
(* index of the key in use, the attempt counter, last_error, and a log of   *)
(* the external calls made and of the sleeps taken, in order.  An exception *)
(* is a record of its type and message; key and attempt name the external   *)
(* call that raised it (0 for an exception raised by the service itself).   *)
(***************************************************************************)
\* The longest key list and the largest GEMINI_MAX_RETRIES considered.
MaxKeys == 2

MaxRetries == 3

KeyPool == <<"k1", "k2", "k3", "k4">>

\* The service as __init__ may leave it.
GeminiConfigs ==
    {[api_keys |-> Prefix(KeyPool, n), max_retries |-> r, sdk |-> lib, client |-> None] :
        n \in 0..MaxKeys, r \in 0..MaxRetries, lib \in {"new", "legacy", "none"}}

\* `self._new_client = self._new_genai.Client(api_key=key)` in
\* _call_new_genai, `self._legacy_genai.configure(api_key=key)` and
\* `self._legacy_model = ...` in _call_legacy_genai: the client of the
\* service is replaced by one made for `key`.
ClientFor(g, key) == [g EXCEPT !.client = Some(key)]

\* available() that does not look at the key list.
GeminiAvailableWithoutKeys(g) == g.sdk # "none"

\* available()
GeminiAvailable(g) == g.api_keys # <<>> /\ g.sdk # "none"

Png == <<"p", "n", "g">>

\* ApiFile
File(b, m) == [base64 |-> b, mimeType |-> m]

\* `not person or not person.get("base64") or not person.get("mimeType")`
PersonMissing(person) ==
    person = None \/ person[1].base64 = <<>> \/ person[1].mimeType = <<>>

\* ClothingPieces that counts every item that is present.
RECURSIVE ClothingPiecesPresent(_, _)
ClothingPiecesPresent(clothing_items, keys) ==
    IF keys = <<>> THEN <<>>
    ELSE (IF clothing_items[Head(keys)] # None THEN <<Head(keys)>> ELSE <<>>)
         \o ClothingPiecesPresent(clothing_items, Tail(keys))

\* The loop of _build_parts: the keys whose item is present and carries
\* base64 data, in the order top, pants, shoes.
RECURSIVE ClothingPieces(_, _)
ClothingPieces(clothing_items, keys) ==
    IF keys = <<>> THEN <<>>
    ELSE LET item == clothing_items[Head(keys)]
         IN (IF item # None /\ item[1].base64 # <<>> THEN <<Head(keys)>> ELSE <<>>)
            \o ClothingPieces(clothing_items, Tail(keys))

\* _build_parts(person, clothing_items) after `clothing_items or {}`: the
\* person image, one part per piece and the text naming the pieces, or
\* ValueError when there is no piece.
BuildParts(person, clothing_items) ==
    LET items == IF clothing_items = None THEN NoClothing ELSE clothing_items[1]
        pieces == ClothingPieces(items, <<"top", "pants", "shoes">>)
    IN [raises |-> pieces = <<>>,
        parts |-> <<[text |-> pieces]>> \o <<[inline_data |-> person[1].base64]>>
                  \o [i \in 1..Len(pieces) |-> [inline_data |-> items[pieces[i]][1].base64]]]

\* Messages of the exceptions an external call may raise.
mKeyNotValid == <<"A", "P", "I", " ", "k", "e", "y", " ", "n", "o", "t", " ", "v", "a", "l", "i", "d">>

mApiKeyInvalid == <<"4", "0", "0", " ", "A", "P", "I", "_", "K", "E", "Y", "_", "I", "N", "V", "A", "L", "I", "D">>

mTimeout == <<"t", "i", "m", "e", "o", "u", "t">>

ErrorMessages == {mKeyNotValid, mApiKeyInvalid, mTimeout}

\* The test of the except clause without lower().
CredentialInvalidAsWritten(msg) ==
    \/ Contains(msg, <<"a", "p", "i", " ", "k", "e", "y", " ", "n", "o", "t", " ", "v", "a", "l", "i", "d">>)
    \/ Contains(msg, <<"a", "p", "i", "_", "k", "e", "y", "_", "i", "n", "v", "a", "l", "i", "d">>)
    \/ Contains(msg, <<"i", "n", "v", "a", "l", "i", "d", " ", "a", "p", "i", " ", "k", "e", "y">>)

\* `msg = str(e).lower()` and the three substring tests of the except clause.
CredentialInvalid(msg) ==
    \E m \in {Lower(msg)} :
       \/ Contains(m, <<"a", "p", "i", " ", "k", "e", "y", " ", "n", "o", "t", " ", "v", "a", "l", "i", "d">>)
       \/ Contains(m, <<"a", "p", "i", "_", "k", "e", "y", "_", "i", "n", "v", "a", "l", "i", "d">>)
       \/ Contains(m, <<"i", "n", "v", "a", "l", "i", "d", " ", "a", "p", "i", " ", "k", "e", "y">>)

\* A part of a reply: a text part, or inline data that may be empty.
TextPart == [inline_data |-> None]

InlinePart(data) == [inline_data |-> Some(data)]

\* A reply whose first candidate has the given content.
Reply(content) == [shape |-> "candidates", candidates |-> <<[content |-> content]>>]

\* What generate_content may return: a reply of another shape than the one
\* expected, a reply without candidates, a candidate without content,
\* content without parts, parts without image data, and parts of which one
\* carries image data.
Responses ==
    {[shape |-> "other", candidates |-> <<>>],
     [shape |-> "candidates", candidates |-> <<>>],
     Reply(None),
     Reply(Some(<<>>)),
     Reply(Some(<<TextPart, InlinePart(<<>>)>>)),
     Reply(Some(<<TextPart, InlinePart(Image)>>))}

\* No reply: the call raised.
NoResponse == [shape |-> "none", candidates |-> <<>>]

\* What one external call (_call_new_genai or _call_legacy_genai) does:
\* generate_content returns a reply, or the call raises.
CallOutcomes ==
    {[kind |-> "returns", msg |-> <<>>, resp |-> r] : r \in Responses}
    \cup {[kind |-> "raises", msg |-> m, resp |-> NoResponse] : m \in ErrorMessages}

Error(type, msg, key, attempt) == [type |-> type, msg |-> msg, key |-> key, attempt |-> attempt]

\* The exception the service raises itself.
Own(type) == Error(type, <<>>, 0, 0)

\* The locals of generate_virtual_try_on_image before the loops;
\* result is None while the call runs.
Entered == [pc |-> "attempt", key |-> 1, attempt |-> 1, last_error |-> None, log |-> <<>>,
            result |-> None]

\* The call ends: it returns `value`, or raises it.
Ended(l, raises, value) ==
    [l EXCEPT !.pc = "returned", !.result = Some([raised |-> raises, value |-> value])]

\* The end of the loop over the keys: `assert last_error is not None` and
\* `raise last_error`.
Exhausted(l) ==
    IF l.last_error = None THEN Ended(l, TRUE, Own("AssertionError"))
    ELSE Ended(l, TRUE, l.last_error[1])

\* The loop over the keys goes on: the next key with attempt 1, or its end.
NextKey(g, l) ==
    IF l.key < Len(g.api_keys)
    THEN [l EXCEPT !.key = @ + 1, !.attempt = 1, !.pc = "attempt"]
    ELSE Exhausted(l)

\* last_error that keeps the first exception seen.
FirstError(prev, e) == IF prev = None THEN Some(e) ELSE prev

\* `last_error = e`
LastError(prev, e) == Some(e)

\* An except clause that retries while attempt <= max_retries.
AfterFailureOneMore(g, l, e) ==
    LET l1 == [l EXCEPT !.last_error = LastError(l.last_error, e)]
    IN IF CredentialInvalid(e.msg) THEN NextKey(g, l1)
       ELSE IF l.attempt <= g.max_retries THEN [l1 EXCEPT !.pc = "sleep"]
       ELSE NextKey(g, l1)

\* The except clause of the retry loop and what the loops do next.
AfterFailure(g, l, e) ==
    LET l1 == [l EXCEPT !.last_error = LastError(l.last_error, e)]
    IN IF CredentialInvalid(e.msg) THEN NextKey(g, l1)
       ELSE IF l.attempt < g.max_retries THEN [l1 EXCEPT !.pc = "sleep"]
       ELSE NextKey(g, l1)

\* A backoff that starts at one second: 2 ** (attempt - 1).
BackoffFromOne(attempt) == 2 ^ (attempt - 1)

\* time.sleep(2 ** attempt)
Backoff(attempt) == 2 ^ attempt

\* generate_virtual_try_on_image up to the first external call: the
\* availability test, the test of the person image, _build_parts, and the
\* loops when `self.api_keys` or range(1, max_retries + 1) is empty.
Entry(g, person, clothing_items) ==
    IF ~GeminiAvailable(g) THEN Ended(Entered, TRUE, Own("RuntimeError"))
    ELSE IF PersonMissing(person) THEN Ended(Entered, TRUE, Own("ValueError"))
    ELSE IF BuildParts(person, clothing_items).raises THEN Ended(Entered, TRUE, Own("ValueError"))
    ELSE IF g.api_keys = <<>> \/ g.max_retries < 1 THEN Exhausted(Entered)
    ELSE Entered

\* What the caller of generate_virtual_try_on_image holds once it has ended.
Delivered(l) == IF l.result # None THEN l.result[1].value ELSE <<>>

Escaped(l) == l.result # None /\ l.result[1].raised

ProxyImage == "proxied"

Placeholder == "placeholder"

\* The data URI _extract_image_from_response builds from the image data.
GeminiImage == "gemini"

\* _extract_image_from_response(resp): the data URI of the first part that
\* carries image data; None when there is no candidate, no content, no
\* part or no such part, and None when reading the reply raises.
ExtractImage(resp) ==
    IF resp.shape # "candidates" THEN None
    ELSE IF resp.candidates = <<>> THEN None
    ELSE IF resp.candidates[1].content = None THEN None
    ELSE LET parts == resp.candidates[1].content[1]
         IN IF \E i \in 1..Len(parts) :
                   parts[i].inline_data # None /\ parts[i].inline_data[1] # <<>>
            THEN Some(GeminiImage)
            ELSE None

\* AfterCall that takes a reply without image for a failed attempt.
AfterCallRetryingNoImage(g, l, o) ==
    IF o.kind = "raises" \/ ExtractImage(o.resp) = None
    THEN AfterFailure(g, l, Error("Exception", o.msg, l.key, l.attempt))
    ELSE Ended(l, FALSE, ExtractImage(o.resp))

\* The try block of the retry loop once the external call is over:
\* `return image_data_uri` whatever the value, or the except clause.
AfterCall(g, l, o) ==
    IF o.kind = "raises"
    THEN AfterFailure(g, l, Error("Exception", o.msg, l.key, l.attempt))
    ELSE Ended(l, FALSE, ExtractImage(o.resp))

\* generate(): an exception of the service is re-raised as it is.
AfterServiceReraising(result) ==
    IF result.raised THEN [pc |-> "done", ret |-> result.value, raised |-> TRUE]
    ELSE IF result.value = None
    THEN [pc |-> "done", ret |-> [status |-> 502], raised |-> TRUE]
    ELSE [pc |-> "done", ret |-> [status |-> 200, generatedImage |-> result.value[1]], raised |-> FALSE]

\* generate() once the service call has ended: the image is answered, a
\* missing image is HTTPException(502), and any other exception is printed
\* and the function goes on to the proxy or the placeholder.
AfterService(result) ==
    IF result.raised THEN [pc |-> "fallback", ret |-> <<>>, raised |-> FALSE]
    ELSE IF result.value = None
    THEN [pc |-> "done", ret |-> [status |-> 502], raised |-> TRUE]
    ELSE [pc |-> "done", ret |-> [status |-> 200, generatedImage |-> result.value[1]], raised |-> FALSE]

\* What the proxy target does: it answers with an image, answers without
\* generatedImage, or the request fails with httpx.HTTPError.
ProxyOutcomes == {"image", "no_image", "http_error"}

\* generate(), option B: the answer of the proxy.
Proxied(outcome) ==
    IF outcome = "image"
    THEN [ret |-> [status |-> 200, generatedImage |-> ProxyImage], raised |-> FALSE]
    ELSE [ret |-> [status |-> 502], raised |-> TRUE]

Persons == {Some(File(Image, Png)), Some(File(<<>>, Png)), Some(File(Image, <<>>))}

ClothingInputs ==
    {None,
     Some([NoClothing EXCEPT !.top = Some(File(<<>>, Png))]),
     Some([NoClothing EXCEPT !.top = Some(File(Image, Png))]),
     Some([NoClothing EXCEPT !.pants = Some(File(Image, Png)), !.shoes = Some(File(<<>>, Png))])}

Services == {"generate_virtual_try_on_image", "generate"}

InitGenerate ==
    /\ source = [kind |-> "array", records |-> <<>>]
    /\ catalog = Load(source, <<>>).catalog
    /\ raised = FALSE
    /\ configured = FALSE
    /\ gemini \in GeminiConfigs
    /\ Idle

\* gemini_image_service.generate_virtual_try_on_image(person, clothing_items)
\* called on its own.
CallService ==
    /\ op = "idle"
    /\ \E person \in Persons, clothing_items \in ClothingInputs :
        LET l == Entry(gemini, person, clothing_items)
        IN /\ args' = [person |-> person, clothing_items |-> clothing_items]
           /\ locals' = l
           /\ ret' = Delivered(l)
           /\ raised' = Escaped(l)
    /\ op' = "generate_virtual_try_on_image"
    /\ UNCHANGED <<catalog, source, configured, gemini>>

\* POST /api/generate: the service is called when it is available.
GenerateRequest ==
    /\ op = "idle"
    /\ \E person \in Persons, clothing_items \in ClothingInputs, proxy_target \in BOOLEAN :
        /\ args' = [person |-> person, clothing_items |-> clothing_items,
                    proxy_target |-> proxy_target]
        /\ locals' = IF GeminiAvailable(gemini) THEN Entry(gemini, person, clothing_items)
                     ELSE [Entered EXCEPT !.pc = "fallback"]
    /\ op' = "generate"
    /\ ret' = <<>>
    /\ raised' = FALSE
    /\ UNCHANGED <<catalog, source, configured, gemini>>

\* One pass of the inner loop: the client is made for the key in use, the
\* external call is made, then the return or the except clause.
Attempt ==
    /\ op \in Services
    /\ locals.pc = "attempt"
    /\ \E o \in CallOutcomes :
        LET made == [locals EXCEPT !.log = Append(@, [type |-> "call", key |-> locals.key,
                                                       attempt |-> locals.attempt,
                                                       outcome |-> o])]
            l == AfterCall(gemini, made, o)
        IN /\ locals' = l
           /\ ret' = IF op = "generate" THEN ret ELSE Delivered(l)
           /\ raised' = IF op = "generate" THEN raised ELSE Escaped(l)
    /\ gemini' = ClientFor(gemini, gemini.api_keys[locals.key])
    /\ UNCHANGED <<catalog, source, configured, op, args>>

\* time.sleep(2 ** attempt), then the next pass of the inner loop.
Sleep ==
    /\ op \in Services
    /\ locals.pc = "sleep"
    /\ locals' = [locals EXCEPT !.log = Append(@, [type |-> "sleep", key |-> locals.key,
                                                   attempt |-> locals.attempt,
                                                   seconds |-> Backoff(locals.attempt)]),
                                !.attempt = @ + 1,
                                !.pc = "attempt"]
    /\ UNCHANGED <<catalog, source, configured, gemini, op, args, ret, raised>>

\* generate() after the service call.
GenerateAfterService ==
    /\ op = "generate"
    /\ locals.pc = "returned"
    /\ LET after == AfterService(locals.result[1])
       IN /\ locals' = [locals EXCEPT !.pc = after.pc]
          /\ ret' = after.ret
          /\ raised' = after.raised
    /\ UNCHANGED <<catalog, source, configured, gemini, op, args>>

\* generate(), options B and C: the proxy when GENERATE_PROXY_TARGET is
\* set, the placeholder image otherwise.
GenerateFallback ==
    /\ op = "generate"
    /\ locals.pc = "fallback"
    /\ \/ /\ args.proxy_target
          /\ \E outcome \in ProxyOutcomes :
                /\ ret' = Proxied(outcome).ret
                /\ raised' = Proxied(outcome).raised
       \/ /\ ~args.proxy_target
          /\ ret' = [status |-> 200, generatedImage |-> Placeholder]
          /\ raised' = FALSE
    /\ locals' = [locals EXCEPT !.pc = "done"]
    /\ UNCHANGED <<catalog, source, configured, gemini, op, args>>

\* The caller has the result.
GenerateReturn ==
    /\ \/ op = "generate_virtual_try_on_image" /\ locals.pc = "returned"
       \/ op = "generate" /\ locals.pc = "done"
    /\ op' = "idle"
    /\ args' = <<>>
    /\ locals' = <<>>
    /\ ret' = <<>>
    /\ raised' = FALSE
    /\ UNCHANGED <<catalog, source, configured, gemini>>

NextGenerate ==
    \/ CallService
    \/ GenerateRequest
    \/ Attempt
    \/ Sleep
    \/ GenerateAfterService
    \/ GenerateFallback
    \/ GenerateReturn

SpecGenerate == InitGenerate /\ [][NextGenerate]_vars

(***************************************************************************)
(* Properties of the image generation call                                  *)
(***************************************************************************)
\* The messages of ErrorMessages that hold one of the three
\* credential-invalid patterns, whatever the case of their letters.
CredentialInvalidMessages == {mKeyNotValid, mApiKeyInvalid}

IsCall(ev) == ev.type = "call"

Failed(ev) == IsCall(ev) /\ ev.outcome.kind = "raises"

\* generate_virtual_try_on_image was called and has ended.
ServiceEnded == op \in Services /\ locals.result # None

ServiceRaised == ServiceEnded /\ locals.result[1].raised

\* C13: when an external call on key k fails with a credential-invalid
\* message, at whatever attempt, nothing more happens on key k, neither a
\* call nor a sleep: what follows, if anything, is attempt 1 on key k + 1.
C13_InvalidKeyAdvances ==
    op \in Services =>
        \A i \in 1..Len(locals.log) :
            LET ev == locals.log[i]
            IN (Failed(ev) /\ ev.outcome.msg \in CredentialInvalidMessages) =>
                /\ \A j \in (i + 1)..Len(locals.log) : locals.log[j].key # ev.key
                /\ i < Len(locals.log) =>
                      /\ IsCall(locals.log[i + 1])
                      /\ locals.log[i + 1].key = ev.key + 1
                      /\ locals.log[i + 1].attempt = 1
                /\ i = Len(locals.log) =>
                      /\ locals.pc # "sleep"
                      /\ locals.pc = "attempt" => locals.key = ev.key + 1 /\ locals.attempt = 1

\* The second attempt on the first key was refused as an invalid key and
\* the call has moved on to the second key.
C13_Witness ==
    /\ op \in Services
    /\ \E i \in 1..Len(locals.log) :
          /\ Failed(locals.log[i])
          /\ locals.log[i].outcome.msg \in CredentialInvalidMessages
          /\ locals.log[i].attempt = 2
          /\ i < Len(locals.log)
          /\ locals.log[i + 1].key = 2

\* C14: when the call fails after external calls were made, every key being
\* used up, the exception it raises is the one of the last external call
\* made, which is a call on the last key.
C14_RaisesLastError ==
    (ServiceRaised /\ locals.log # <<>>) =>
        LET last == locals.log[Len(locals.log)]
        IN /\ Failed(last)
           /\ last.key = Len(gemini.api_keys)
           /\ locals.result[1].value = Error("Exception", last.outcome.msg, last.key, last.attempt)

\* The call has failed after an earlier external call raised another
\* message than the last one.
C14_Witness ==
    /\ ServiceRaised
    /\ Len(locals.log) >= 2
    /\ Failed(locals.log[1])
    /\ locals.log[1].outcome.msg # locals.log[Len(locals.log)].outcome.msg
    /\ locals.result[1].value.msg = locals.log[Len(locals.log)].outcome.msg

\* C15: with an empty key list generate_virtual_try_on_image raises the
\* configuration error (RuntimeError) at once: no external call is made and
\* no sleep is taken.
C15_NoKeysConfigurationError ==
    (op = "generate_virtual_try_on_image" /\ gemini.api_keys = <<>>) =>
        /\ locals.result = Some([raised |-> TRUE, value |-> Own("RuntimeError")])
        /\ locals.log = <<>>
        /\ raised
        /\ ret = Own("RuntimeError")

\* A complete request met a service that has a client library and no key.
C15_Witness ==
    /\ op = "generate_virtual_try_on_image"
    /\ gemini.api_keys = <<>>
    /\ gemini.sdk # "none"
    /\ gemini.max_retries > 0
    /\ ~PersonMissing(args.person)
    /\ args.clothing_items # None
    /\ raised

\* The request lacks the person's base64 data or mime type, or no clothing
\* item carries base64 data.
IncompleteRequest ==
    \/ args.person[1].base64 = <<>>
    \/ args.person[1].mimeType = <<>>
    \/ args.clothing_items = None
    \/ \A k \in {"top", "pants", "shoes"} :
          \/ args.clothing_items[1][k] = None
          \/ args.clothing_items[1][k][1].base64 = <<>>

\* C16 as stated: for an incomplete request generate_virtual_try_on_image
\* raises the validation error (ValueError) without any external call,
\* whatever the key list and the retry setting.
C16_ValidationErrorForEveryKeyList ==
    (op = "generate_virtual_try_on_image" /\ IncompleteRequest) =>
        /\ locals.result = Some([raised |-> TRUE, value |-> Own("ValueError")])
        /\ locals.log = <<>>

\* C16 amended: for an incomplete request generate_virtual_try_on_image
\* raises without any external call and without a sleep, whatever the key
\* list and the retry setting; the exception is the validation error
\* (ValueError) when the service is available (a key and a client library)
\* and the configuration error (RuntimeError) when it is not.
C16_ValidationErrorWhenAvailable ==
    (op = "generate_virtual_try_on_image" /\ IncompleteRequest) =>
        /\ locals.log = <<>>
        /\ raised
        /\ ret = IF gemini.api_keys # <<>> /\ gemini.sdk # "none"
                 THEN Own("ValueError") ELSE Own("RuntimeError")
        /\ locals.result = Some([raised |-> TRUE, value |-> ret])

\* An available service was given a complete person image and a top that
\* is present but carries no base64 data.
C16_Witness ==
    /\ op = "generate_virtual_try_on_image"
    /\ gemini.api_keys # <<>>
    /\ gemini.sdk # "none"
    /\ gemini.max_retries > 0
    /\ ~PersonMissing(args.person)
    /\ args.clothing_items # None
    /\ args.clothing_items[1].top # None
    /\ ret = Own("ValueError")

\* The generate endpoint has answered a request whose image generation
\* failed: the service raised (the validation error, or the last error once
\* every key was used up), or it was not available for want of a key or of
\* a client library and was not called.
GenerationFailed ==
    /\ op = "generate"
    /\ locals.pc = "done"
    /\ \/ locals.result # None /\ locals.result[1].raised
       \/ gemini.api_keys = <<>>
       \/ gemini.sdk = "none"

\* C19 as stated: when the image generation fails, the generate endpoint
\* answers with a failure, never with an image.
C19_FailureReachesCaller == GenerationFailed => raised

\* C19 amended: when the image generation fails, the generate endpoint goes
\* on to its other sources: with a proxy target configured the answer is
\* the proxy's (its image, or 502 when the proxy fails or sends no image),
\* and with none the answer is a successful response holding the
\* placeholder image.
C19_FailureFallsThrough ==
    GenerationFailed =>
        IF args.proxy_target
        THEN \E outcome \in ProxyOutcomes :
                ret = Proxied(outcome).ret /\ raised = Proxied(outcome).raised
        ELSE ~raised /\ ret = [status |-> 200, generatedImage |-> Placeholder]

\* Every key was used up after two failed external calls at least, no proxy
\* is configured, and the endpoint has answered with the placeholder.
C19_Witness ==
    /\ GenerationFailed
    /\ Len(locals.log) >= 2
    /\ locals.result[1].value.type = "Exception"
    /\ ~args.proxy_target
    /\ ~raised
    /\ ret.generatedImage = Placeholder

\* The message of a failed call is none of the credential-invalid ones.
Transient(ev) == Failed(ev) /\ ev.outcome.msg \notin CredentialInvalidMessages

IsSleep(ev) == ev.type = "sleep"

\* What follows the i-th event of the log is a sleep, taken or about to be.
SleepFollows(i) ==
    IF i < Len(locals.log) THEN IsSleep(locals.log[i + 1]) ELSE locals.pc = "sleep"

\* C24: a transient failure on attempt n of a key with n < max_retries is
\* followed by a sleep of 2^n seconds (2 after attempt 1, 4 after attempt
\* 2) and then by attempt n + 1 on the same key; no sleep follows the last
\* attempt on a key or a credential-invalid failure, and none precedes the
\* first attempt on a key.
C24_BackoffBetweenRetries ==
    op \in Services =>
        \A i \in 1..Len(locals.log) :
            LET ev == locals.log[i]
            IN /\ (Transient(ev) /\ ev.attempt < gemini.max_retries) => SleepFollows(i)
               /\ (Failed(ev) /\ ~(Transient(ev) /\ ev.attempt < gemini.max_retries)) => ~SleepFollows(i)
               /\ (IsCall(ev) /\ ~Failed(ev)) => ~SleepFollows(i)
               /\ IsSleep(ev) =>
                     /\ i > 1
                     /\ Transient(locals.log[i - 1])
                     /\ locals.log[i - 1].key = ev.key
                     /\ locals.log[i - 1].attempt = ev.attempt
                     /\ ev.seconds = 2 ^ ev.attempt
                     /\ ev.attempt = 1 => ev.seconds = 2
                     /\ ev.attempt = 2 => ev.seconds = 4
                     /\ IF i < Len(locals.log)
                        THEN /\ IsCall(locals.log[i + 1])
                             /\ locals.log[i + 1].key = ev.key
                             /\ locals.log[i + 1].attempt = ev.attempt + 1
                        ELSE /\ locals.pc = "attempt"
                             /\ locals.key = ev.key
                             /\ locals.attempt = ev.attempt + 1
               /\ (IsCall(ev) /\ ev.attempt = 1 /\ i > 1) => ~IsSleep(locals.log[i - 1])

\* With three attempts per key the first key timed out three times, with
\* sleeps of 2 and 4 seconds in between, and the second key was tried
\* without a sleep before it.
C24_Witness ==
    /\ op \in Services
    /\ gemini.max_retries = 3
    /\ Len(locals.log) >= 6
    /\ Transient(locals.log[1])
    /\ IsSleep(locals.log[2]) /\ locals.log[2].seconds = 2
    /\ Transient(locals.log[3])
    /\ IsSleep(locals.log[4]) /\ locals.log[4].seconds = 4
    /\ Transient(locals.log[5]) /\ locals.log[5].key = 1 /\ locals.log[5].attempt = 3
    /\ IsCall(locals.log[6]) /\ locals.log[6].key = 2 /\ locals.log[6].attempt = 1

\* The reply holds a candidate whose content has a part with image data.
HasImage(resp) ==
    /\ resp.shape = "candidates"
    /\ resp.candidates # <<>>
    /\ resp.candidates[1].content # None
    /\ \E part \in Range(resp.candidates[1].content[1]) :
          part.inline_data # None /\ part.inline_data[1] # <<>>

\* C25: an external call that completes without raising is the last event
\* of the call: no call, sleep or change of key follows it, and
\* generate_virtual_try_on_image returns its value, the data URI when the
\* reply holds an image and None when it holds none.
C25_ReturnsFirstCompletedAttempt ==
    op \in Services =>
        \A i \in 1..Len(locals.log) :
            LET ev == locals.log[i]
            IN (IsCall(ev) /\ ~Failed(ev)) =>
                /\ i = Len(locals.log)
                /\ locals.pc \notin {"attempt", "sleep"}
                /\ locals.key = ev.key /\ locals.attempt = ev.attempt
                /\ locals.result
                   = Some([raised |-> FALSE,
                           value |-> IF HasImage(ev.outcome.resp) THEN Some(GeminiImage) ELSE None])
                /\ op = "generate_virtual_try_on_image" =>
                      ~raised /\ ret = locals.result[1].value

\* The first attempt timed out and the second one, on the same key,
\* brought a reply without image data while attempts and keys were left:
\* the call has returned None.
C25_Witness ==
    /\ op = "generate_virtual_try_on_image"
    /\ Len(gemini.api_keys) = 2
    /\ gemini.max_retries = 3
    /\ Len(locals.log) = 3
    /\ Transient(locals.log[1])
    /\ IsCall(locals.log[3])
    /\ locals.log[3].outcome.resp = Reply(Some(<<TextPart, InlinePart(<<>>)>>))
    /\ ~raised
    /\ ret = None

\* The loops of generate_virtual_try_on_image are run by the thread of the
\* request: an external call returns or raises (the client times out) and
\* time.sleep returns, so a pending attempt or sleep is taken in the end.
\* Calls of the service on its own, under that scheduling.
NextService ==
    \/ CallService
    \/ Attempt
    \/ Sleep
    \/ GenerateReturn

SpecServiceFair ==
    InitGenerate /\ [][NextService]_vars /\ WF_vars(Attempt) /\ WF_vars(Sleep)

\* generate_virtual_try_on_image is inside its loops.
ServiceRunning == op \in Services /\ locals.pc \in {"attempt", "sleep"}

CallsOn(k) == {i \in DOMAIN locals.log : IsCall(locals.log[i]) /\ locals.log[i].key = k}

SleepsOn(k) == {i \in DOMAIN locals.log : IsSleep(locals.log[i]) /\ locals.log[i].key = k}

\* With K keys and R attempts per key: at most K * R external calls, at
\* most R on one key and at most R - 1 sleeps on one key (none when R is
\* 0); the first call is on the first key, and each event is on the key of
\* the event before it or on the next key of the list.
WithinBounds ==
    op \in Services =>
        LET K == Len(gemini.api_keys)
            R == gemini.max_retries
            log == locals.log
        IN /\ Cardinality({i \in DOMAIN log : IsCall(log[i])}) <= K * R
           /\ \A i \in DOMAIN log : log[i].key \in 1..K /\ log[i].attempt \in 1..R
           /\ \A k \in 1..K :
                 /\ Cardinality(CallsOn(k)) <= R
                 /\ Cardinality(SleepsOn(k)) <= IF R > 0 THEN R - 1 ELSE 0
           /\ log # <<>> => log[1].key = 1
           /\ \A i \in 1..(Len(log) - 1) : log[i + 1].key \in {log[i].key, log[i].key + 1}
           /\ \A i, j \in DOMAIN log : i < j => log[i].key <= log[j].key
           /\ (log # <<>> /\ locals.pc \in {"attempt", "sleep"}) =>
                 locals.key \in {log[Len(log)].key, log[Len(log)].key + 1}

\* C28: generate_virtual_try_on_image always terminates, and for K keys and
\* R attempts per key it makes at most K * R external calls and at most
\* R - 1 sleeps per key, uses the keys in the order of the list and never
\* goes back to a key it has left.
C28_TerminatesWithinBounds == []WithinBounds /\ (ServiceRunning ~> ServiceEnded)

\* Two keys with three attempts each were used up: six external calls, two
\* sleeps on each key, and the call has ended.
C28_Witness ==
    /\ ServiceRaised
    /\ Len(gemini.api_keys) = 2
    /\ gemini.max_retries = 3
    /\ Cardinality(CallsOn(1)) = 3 /\ Cardinality(SleepsOn(1)) = 2
    /\ Cardinality(CallsOn(2)) = 3 /\ Cardinality(SleepsOn(2)) = 2
    /\ Len(locals.log) = 10

\* The request holds the person image and a clothing item with data, and
\* the service has a key and a client library.
ValidCallOnAvailableService ==
    /\ op = "generate_virtual_try_on_image"
    /\ gemini.api_keys # <<>>
    /\ gemini.sdk # "none"
    /\ ~IncompleteRequest

\* C30: with a key and valid input, whatever max_retries is (0 included),
\* generate_virtual_try_on_image makes an external call before it ends, and
\* when it raises, the exception is the one of an external call it made.
C30_FailsOnlyAfterAnAttempt ==
    (ValidCallOnAvailableService /\ ServiceEnded) =>
        /\ locals.log # <<>>
        /\ locals.result[1].raised =>
              \E i \in DOMAIN locals.log :
                  /\ Failed(locals.log[i])
                  /\ locals.result[1].value
                     = Error("Exception", locals.log[i].outcome.msg,
                             locals.log[i].key, locals.log[i].attempt)

(***************************************************************************)
(* LLMRanker.rerank with its candidates (services/llm_ranker.py)            *)
(*                                                                         *)
(* In the sources of this part a price is kept as the JSON source gives it: *)
(* Some(n) for a number and None for null.  find_similar without a price    *)
(* range never reads the price, so it returns such records as they are.     *)
(***************************************************************************)
\* `items[: 20]` in fmt_items
ItemsShown == 20

RawN1 == [id |-> "n1", title |-> tCasualTee, price |-> Some(2), tags |-> <<wCasual>>, category |-> "top"]

RawN2 == [id |-> "n2", title |-> tCasualTee, price |-> None, tags |-> <<wRed>>, category |-> "top"]

RawN3 == [id |-> "n3", title |-> tCasualPants, price |-> Some(4), category |-> "pants"]

RerankPool == {RawN1, RawN2, RawN3}

RerankSources == {[kind |-> "array", records |-> q] : q \in DistinctSeqs(RerankPool, 2)}

\* fmt_items(items): `int(it.get("price", 0))` raises TypeError on a null
\* price; the other fields of a record that search has scored convert.
FmtItemsRaises(items) ==
    \E i \in 1..Len(Prefix(items, ItemsShown)) : items[i].price = None

\* The statements of rerank between the availability test and the try
\* block: the prompt, json.dumps(analysis) and fmt_items for each category.
PromptRaises(candidates) == \E c \in DOMAIN candidates : FmtItemsRaises(candidates[c])

\* rerank with a second call when the first one raises.
RerankRetrying(cfg, candidates, replies, top_k) ==
    IF ~RankerAvailable(cfg) THEN [raises |-> FALSE, value |-> None, calls |-> 0]
    ELSE IF PromptRaises(candidates)
    THEN [raises |-> TRUE, value |-> Own("TypeError"), calls |-> 0]
    ELSE IF replies[1].kind = "raises"
    THEN [raises |-> FALSE, value |-> Rerank(cfg, replies[2], top_k), calls |-> 2]
    ELSE [raises |-> FALSE, value |-> Rerank(cfg, replies[1], top_k), calls |-> 1]

\* rerank(analysis, candidates, top_k) as a whole.  replies lists what the
\* model would answer to a first and to a second call; the try block holds
\* one call and no loop, so only the first is ever asked for.
RerankWith(cfg, candidates, replies, top_k) ==
    IF ~RankerAvailable(cfg) THEN [raises |-> FALSE, value |-> None, calls |-> 0]
    ELSE IF PromptRaises(candidates)
    THEN [raises |-> TRUE, value |-> Own("TypeError"), calls |-> 0]
    ELSE [raises |-> FALSE, value |-> Rerank(cfg, replies[1], top_k), calls |-> 1]

\* What the model would answer to a second call.
SecondReplies ==
    {[kind |-> "raises", data |-> <<>>],
     [kind |-> "object", data |-> ("top" :> <<"n1">>) @@ ("pants" :> <<"n3">>)]}

InitRerank ==
    /\ source \in RerankSources
    /\ catalog = Load(source, <<>>).catalog
    /\ raised = FALSE
    /\ configured \in BOOLEAN
    /\ gemini = GeminiUnset
    /\ Idle

\* llm_ranker.rerank(analysis, candidate_recs, top_k=max_k) on the
\* candidates find_similar returns for the analysis.
RerankCall ==
    /\ op = "idle"
    /\ \E analysis \in Analyses, top_k \in 1..MaxPerCategoryBound,
          first \in Replies, second \in SecondReplies :
        LET candidates == FindSimilar(catalog, analysis, CandidateLimit(None), TRUE,
                                      None, None, None)
            out == RerankWith(configured, candidates, <<first, second>>, top_k)
        IN /\ args' = [analysis |-> analysis, candidates |-> candidates, top_k |-> top_k,
                       replies |-> <<first, second>>]
           /\ locals' = [calls |-> out.calls]
           /\ ret' = out.value
           /\ raised' = out.raises
    /\ op' = "rerank"
    /\ UNCHANGED <<catalog, source, configured, gemini>>

\* rerank's caller has its result.
RerankReturn ==
    /\ op = "rerank"
    /\ op' = "idle"
    /\ args' = <<>>
    /\ locals' = <<>>
    /\ ret' = <<>>
    /\ raised' = FALSE
    /\ UNCHANGED <<catalog, source, configured, gemini>>

NextRerank ==
    \/ RerankCall
    \/ RerankReturn

SpecRerank == InitRerank /\ [][NextRerank]_vars

\* C17: whatever the analysis, the candidates find_similar returned and the
\* behaviour of the model, rerank returns a mapping or None: no exception
\* leaves it.
C17_RerankNeverRaises == op = "rerank" => ~raised

RerankPreferences == {None, Some(TRUE), Some(FALSE)}

\* The options object with the preference in it.
SentOptions(pref) ==
    Some(IF pref = None THEN DefaultOptions ELSE ("useLLMRerank" :> pref[1]) @@ DefaultOptions)

PreferenceSources == {s \in Sources : s.kind = "array" /\ Len(s.records) <= 1}

InitPreference ==
    /\ source \in PreferenceSources
    /\ catalog = Load(source, <<>>).catalog
    /\ raised = FALSE
    /\ configured \in BOOLEAN
    /\ gemini = GeminiUnset
    /\ Idle

\* POST /api/recommend with a rerank preference in the options.
UploadWithPreference ==
    /\ op = "idle"
    /\ \E r \in UploadRequests, pref \in RerankPreferences,
          azure \in AzureMet(AzureAvailable(configured)),
          reply \in ReplyMet(RankerAvailable(configured)) :
        LET req == r @@ [options |-> ParseOptions(SentOptions(pref))]
            out == RecommendFromUpload(catalog, configured, req, azure, reply)
        IN /\ args' = [req |-> req, azure |-> azure, reply |-> reply,
                       sent |-> SentOptions(pref), preference |-> pref]
           /\ locals' = out.locals
           /\ ret' = out.ret
    /\ op' = "recommend_from_upload"
    /\ raised' = FALSE
    /\ UNCHANGED <<catalog, source, configured, gemini>>

\* POST /api/recommend/from-fitting with a rerank preference in the options.
FittingWithPreference ==
    /\ op = "idle"
    /\ \E r \in FittingRequests, pref \in RerankPreferences,
          reply \in ReplyMet(RankerAvailable(configured)) :
        \E azure \in AzureMet(AzureAvailable(configured) /\ r.generatedImage # <<>>) :
        LET req == r @@ [options |-> ParseOptions(SentOptions(pref))]
            out == RecommendFromFitting(catalog, configured, req, azure, reply)
        IN /\ args' = [req |-> req, azure |-> azure, reply |-> reply,
                       sent |-> SentOptions(pref), preference |-> pref]
           /\ locals' = out.locals
           /\ ret' = out.ret
    /\ op' = "recommend_from_fitting"
    /\ raised' = FALSE
    /\ UNCHANGED <<catalog, source, configured, gemini>>

NextPreference ==
    \/ UploadWithPreference
    \/ FittingWithPreference
    \/ Return

SpecPreference == InitPreference /\ [][NextPreference]_vars

\* C20: the handler's use-rerank decision is the caller's preference when
\* the caller stated one and the reranker's availability when not: after an
\* explicit false the reranker is not called, and with no preference it is
\* called exactly when it is available.
C20_PreferenceHonoured ==
    IsRecommend =>
        /\ args.preference # None => locals.use_llm = args.preference[1]
        /\ args.preference = Some(FALSE) => ~locals.called
        /\ args.preference = None =>
              /\ locals.use_llm = RankerAvailable(configured)
              /\ locals.called = RankerAvailable(configured)

(***************************************************************************)
(* CatalogService._score_product called on its own                          *)
(***************************************************************************)
\* The longest keyword list given to _score_product.
MaxKeywords == 3

wRedWool == <<"R", "e", "d", " ", "w", "o", "o", "l">>

\* Keywords as a caller may pass them: not stripped, not lower-cased,
\* possibly empty, possibly of several tokens.
ScoreKeywordPool == {wCasual, wCasualTee, wPaddedCasual, wRedWool, wBasic, <<>>}

InitScore ==
    /\ source \in PreferenceSources
    /\ catalog = Load(source, <<>>).catalog
    /\ raised = FALSE
    /\ configured = FALSE
    /\ gemini = GeminiUnset
    /\ Idle

\* self._score_product(product, keywords) for a product of the catalog.
ScoreProductCall ==
    /\ op = "idle"
    /\ \E i \in 1..Len(catalog), keywords \in SeqsUpTo(ScoreKeywordPool, MaxKeywords) :
        /\ args' = [product |-> catalog[i], keywords |-> keywords]
        /\ ret' = ScoreProduct(catalog[i], keywords)
    /\ op' = "_score_product"
    /\ locals' = <<>>
    /\ raised' = FALSE
    /\ UNCHANGED <<catalog, source, configured, gemini>>

NextScore ==
    \/ ScoreProductCall
    \/ Return

SpecScore == InitScore /\ [][NextScore]_vars

\* The lower-cased text '<title> <tags joined by spaces>' of a product.
ItemText(product) == Lower(product.title \o <<" ">> \o Join(product.tags))

\* The positions of the keywords that are substrings of the item text.
FullMatches(product, keywords) ==
    {k \in 1..Len(keywords) : Contains(ItemText(product), Lower(keywords[k]))}

\* The positions of the other keywords of which a whitespace-delimited
\* token is a substring of the item text.
PartialMatches(product, keywords) ==
    {k \in (1..Len(keywords)) \ FullMatches(product, keywords) :
        \E tok \in Range(Split(Lower(keywords[k]))) : Contains(ItemText(product), tok)}

\* C22: score(product, keywords) is the sum over the positions of the
\* keyword list, duplicates counted each time and nothing normalised, of
\* 1.0 for a keyword that is a substring of the item text, else 0.5 for a
\* keyword of which some token is, else 0; so it is a multiple of 0.5
\* between 0 and the number of keywords (scores are in half units here).
C22_ScoreIsSumOverKeywords ==
    op = "_score_product" =>
        /\ ret = 2 * Cardinality(FullMatches(args.product, args.keywords))
                 + Cardinality(PartialMatches(args.product, args.keywords))
        /\ ret \in 0..(2 * Len(args.keywords))

\* A keyword listed twice matched in full both times and a two-token
\* keyword matched by one token: 1.0 + 1.0 + 0.5.
C22_Witness ==
    /\ op = "_score_product"
    /\ Len(args.keywords) = 3
    /\ args.keywords[1] = args.keywords[2]
    /\ FullMatches(args.product, args.keywords) = {1, 2}
    /\ PartialMatches(args.product, args.keywords) = {3}
    /\ ret = 5

(***************************************************************************)
(* The candidates of the recommendation handlers over a long catalog        *)
(*                                                                         *)
(* Neither the style analysis nor the reranker is configured here, so the   *)
(* handlers take the fallback analysis and recommend without rerank.        *)
(***************************************************************************)
\* The largest number of tops in the catalog.
MaxTops == 13

\* The i-th top of the source: every fourth one is tagged "basic" and
\* "Red", prices run over 0, 1, 2 and the tops from the thirteenth on cost 5.
Top(i) ==
    [id |-> ToString(i), title |-> tCasualTee,
     price |-> IF i > 12 THEN 5 ELSE i % 3,
     tags |-> IF i % 4 = 0 THEN <<wBasic, wRedCap>> ELSE <<wWool>>,
     category |-> "top"]

CandidateSources ==
    {[kind |-> "array", records |-> [i \in 1..n |-> Top(i)] \o tail] :
        n \in 0..MaxTops, tail \in {<<>>, <<RawP1>>}}

CandidateOptions ==
    {None,
     Some([DefaultOptions EXCEPT !.maxPerCategory = None]),
     Some([DefaultOptions EXCEPT !.maxPerCategory = Some(1)]),
     Some([DefaultOptions EXCEPT !.maxPerCategory = Some(1), !.excludeTags = Some(<<wRed>>)]),
     Some([DefaultOptions EXCEPT !.maxPerCategory = Some(1), !.minPrice = Some(4)]),
     Some([DefaultOptions EXCEPT !.maxPerCategory = Some(2), !.minPrice = Some(1),
                                 !.maxPrice = Some(2)])}

InitCandidates ==
    /\ source \in CandidateSources
    /\ catalog = Load(source, <<>>).catalog
    /\ raised = FALSE
    /\ configured = FALSE
    /\ gemini = GeminiUnset
    /\ Idle

\* POST /api/recommend over the long catalog.
UploadForCandidates ==
    /\ op = "idle"
    /\ \E r \in UploadRequests, options \in CandidateOptions,
          azure \in AzureMet(AzureAvailable(configured)),
          reply \in ReplyMet(RankerAvailable(configured)) :
        LET req == r @@ [options |-> options]
            out == RecommendFromUpload(catalog, configured, req, azure, reply)
        IN /\ args' = [req |-> req, azure |-> azure, reply |-> reply]
           /\ locals' = out.locals
           /\ ret' = out.ret
    /\ op' = "recommend_from_upload"
    /\ raised' = FALSE
    /\ UNCHANGED <<catalog, source, configured, gemini>>

\* POST /api/recommend/from-fitting over the long catalog.
FittingForCandidates ==
    /\ op = "idle"
    /\ \E r \in FittingRequests, options \in CandidateOptions,
          reply \in ReplyMet(RankerAvailable(configured)) :
        \E azure \in AzureMet(AzureAvailable(configured) /\ r.generatedImage # <<>>) :
        LET req == r @@ [options |-> options]
            out == RecommendFromFitting(catalog, configured, req, azure, reply)
        IN /\ args' = [req |-> req, azure |-> azure, reply |-> reply]
           /\ locals' = out.locals
           /\ ret' = out.ret
    /\ op' = "recommend_from_fitting"
    /\ raised' = FALSE
    /\ UNCHANGED <<catalog, source, configured, gemini>>

NextCandidates ==
    \/ UploadForCandidates
    \/ FittingForCandidates
    \/ Return

SpecCandidates == InitCandidates /\ [][NextCandidates]_vars

\* The candidates of category c when the catalog is queried for at most
\* `queried` products, the price filter and then the excluded-tag filter
\* are applied, and the list is cut to `kept` entries.
CandidatesBy(c, queried, kept) ==
    Prefix(TagFilter(PriceFilter(Search(catalog, CollectKeywords(locals.analysis, FacetKeys),
                                        Some(<<c>>), queried, 0),
                                 MinPriceAsked, MaxPriceAsked),
                     ExcludeAsked),
           kept)

SortedByScore(items) == \A i, j \in 1..Len(items) : i < j => items[i].score >= items[j].score

\* C23 as stated: for each category the handlers' candidates are what the
\* catalog gives when it is queried with maxResults = maxPerCategory x 4,
\* the price filter and then the excluded-tag filter are applied and the
\* list is cut to maxPerCategory x 4; the list is sorted by score and has
\* at most maxPerCategory x 4 entries.
C23_QueriedWithFourTimes ==
    IsRecommend =>
        \A c \in DOMAIN locals.candidate_recs :
            LET limit == RequestedMax(args.req.options) * 4
            IN /\ locals.candidate_recs[c] = CandidatesBy(c, limit, limit)
               /\ SortedByScore(locals.candidate_recs[c])
               /\ Len(locals.candidate_recs[c]) <= limit

\* C23 amended: as C23, where the catalog is queried with maxResults =
\* maxPerCategory x 12, three times the number of candidates kept.
C23_QueriedWithTwelveTimes ==
    IsRecommend =>
        \A c \in DOMAIN locals.candidate_recs :
            LET limit == RequestedMax(args.req.options) * 4
            IN /\ locals.candidate_recs[c] = CandidatesBy(c, 3 * limit, limit)
               /\ SortedByScore(locals.candidate_recs[c])
               /\ Len(locals.candidate_recs[c]) <= limit

\* maxPerCategory 1 and "red" excluded over more than four matching tops:
\* the fourth top is dropped for its tag "Red" and the fifth takes its
\* place among the four candidates.
C23_Witness ==
    /\ op = "recommend_from_fitting"
    /\ RequestedMax(args.req.options) = 1
    /\ ExcludeAsked = Some(<<wRed>>)
    /\ Len(catalog) > 4
    /\ IdsOf(locals.candidate_recs["top"]) = <<"1", "2", "3", "5">>

\* The positions of the products of category c that score above 0 for the
\* request's keywords, whose price lies within [minPrice or 0, maxPrice or
\* unbounded] and which carry no excluded tag, whatever the case of its
\* letters.
Eligible(c) ==
    {k \in 1..Len(catalog) :
        /\ catalog[k].category = c
        /\ ScoreProduct(catalog[k], NormalizeKeywords(CollectKeywords(locals.analysis, FacetKeys))) > 0
        /\ MinPriceAsked # None => MinPriceAsked[1] <= catalog[k].price
        /\ MaxPriceAsked # None => catalog[k].price <= MaxPriceAsked[1]
        /\ ExcludeAsked # None =>
              \A t \in Range(catalog[k].tags), e \in Range(ExcludeAsked[1]) : Lower(t) # Lower(e)}

\* C29: without rerank, the number of items recommended for a category is
\* the smaller of maxPerCategory and the number of the category's products
\* that score above 0 and pass the price and excluded-tag filters.
C29_AsManyAsEligible ==
    (IsRecommend /\ ~RerankUsed) =>
        \A c \in DOMAIN ret.recommendations :
            Len(ret.recommendations[c])
            = Min(RequestedMax(args.req.options), Cardinality(Eligible(c)))

(***************************************************************************)
(* LLMRanker.rerank on the text of the model's reply                        *)
(*                                                                         *)
(* The reply is a str.  Its JSON is written in a short notation: "{ab7}"    *)
(* stands for the object whose "top" list holds the strings "a" and "b" and *)
(* the number 7, in that order; "p" is a word of prose, " " is the only     *)
(* whitespace and "^" is the character of which three make a code fence.    *)
(***************************************************************************)
Fence == <<"^", "^", "^">>

JsonTag == <<"j", "s", "o", "n">>

\* str.startswith(prefix)
StartsWith(text, prefix) ==
    Len(text) >= Len(prefix) /\ SubSeq(text, 1, Len(prefix)) = prefix

\* The positions at which sep occurs in text.
Occurrences(text, sep) ==
    {i \in 1..Len(text) : i + Len(sep) - 1 <= Len(text) /\ SubSeq(text, i, i + Len(sep) - 1) = sep}

\* text.split(sep)[0]: what stands before the first occurrence of sep.
SplitFirst(text, sep) ==
    LET occ == Occurrences(text, sep)
    IN IF occ = {} THEN text
       ELSE SubSeq(text, 1, (CHOOSE i \in occ : \A j \in occ : i <= j) - 1)

\* text.split(sep)[-1]: what stands behind the last occurrence of sep.
SplitLast(text, sep) ==
    LET occ == Occurrences(text, sep)
    IN IF occ = {} THEN text
       ELSE SubSeq(text, (CHOOSE i \in occ : \A j \in occ : i >= j) + Len(sep), Len(text))

\* `json_part = (text if text.strip().startswith("{") else
\* (text.split("```json")[-1].split("```")[0] if "```" in text else text)).strip()`
JsonPart(text) ==
    IF StartsWith(Strip(text), <<"{">>) THEN Strip(text)
    ELSE IF Contains(text, Fence) THEN Strip(SplitFirst(SplitLast(text, Fence \o JsonTag), Fence))
    ELSE Strip(text)

\* The elements a JSON list may hold here.
ItemChars == {"a", "b", "7"}

\* A JSON string, or a JSON number.
JsonValue(ch) == [type |-> IF ch = "7" THEN "int" ELSE "str", text |-> ch]

\* str(x)
Str(v) == v.text

\* json.loads(json_part) followed by `[str(x) for x in ids]`: the text has
\* to be one object and nothing else.
ParseReplyText(text) ==
    LET t == JsonPart(text)
        object == /\ Len(t) >= 2
                  /\ t[1] = "{"
                  /\ t[Len(t)] = "}"
                  /\ \A k \in 2..(Len(t) - 1) : t[k] \in ItemChars
    IN IF object
       THEN [kind |-> "object",
             data |-> ("top" :> [k \in 1..(Len(t) - 2) |-> Str(JsonValue(t[k + 1]))])]
       ELSE [kind |-> "not_json", data |-> <<>>]

\* The objects the model may write.
ObjectTexts == {<<"{", "}">>, <<"{", "a", "b", "}">>, <<"{", "b", "7", "a", "}">>}

FenceKinds == {"none", "plain", "json"}

Prose == {<<>>, <<"p">>}

\* The reply: prose, the object between fences of the kind named, prose.
ReplyText(before, fence, object, after) ==
    (IF before = <<>> THEN <<>> ELSE before \o <<" ">>)
    \o (IF fence = "none" THEN object
        ELSE Fence \o (IF fence = "json" THEN JsonTag ELSE <<>>) \o <<" ">> \o object
             \o <<" ">> \o Fence)
    \o (IF after = <<>> THEN <<>> ELSE <<" ">> \o after)

InitReplyText ==
    /\ source = [kind |-> "array", records |-> <<>>]
    /\ catalog = Load(source, <<>>).catalog
    /\ raised = FALSE
    /\ configured \in BOOLEAN
    /\ gemini = GeminiUnset
    /\ Idle

\* llm_ranker.rerank(analysis, candidates, top_k) when the model answers
\* with the text built from (before, fence, object, after).
RerankReplyText ==
    /\ op = "idle"
    /\ \E analysis \in Analyses, top_k \in 1..MaxPerCategoryBound, before \in Prose,
          fence \in FenceKinds, object \in ObjectTexts, after \in Prose :
        LET candidates == FindSimilar(catalog, analysis, CandidateLimit(None), TRUE,
                                      None, None, None)
            text == ReplyText(before, fence, object, after)
            reply == IF RankerAvailable(configured) THEN ParseReplyText(text) ELSE NotCalled
            out == RerankWith(configured, candidates, <<reply, reply>>, top_k)
        IN /\ args' = [analysis |-> analysis, candidates |-> candidates, top_k |-> top_k,
                       fence |-> fence, object |-> object, text |-> text]
           /\ locals' = [calls |-> out.calls]
           /\ ret' = out.value
           /\ raised' = out.raises
    /\ op' = "rerank"
    /\ UNCHANGED <<catalog, source, configured, gemini>>

NextReplyText ==
    \/ RerankReplyText
    \/ RerankReturn

SpecReplyText == InitReplyText /\ [][NextReplyText]_vars

\* The ids the object lists for "top", as strings.
ListedIds(object) == [k \in 1..(Len(object) - 2) |-> object[k + 1]]

\* C26: when the reply holds the object between code fences, with or
\* without the language tag "json", with or without prose before or after,
\* rerank returns the id lists of the object, as strings and cut to top_k,
\* and not None.
C26_FencedReplyParsed ==
    (op = "rerank" /\ configured /\ args.fence # "none") =>
        ret = Some([c \in Range(Categories) |->
                       IF c = "top" THEN Prefix(ListedIds(args.object), args.top_k) ELSE <<>>])

(***************************************************************************)
(* Two image generation calls at the same time                              *)
(*                                                                         *)
(* generate() is a plain `def` endpoint, so FastAPI runs two requests on    *)
(* two threads, and both call the one module-level GeminiImageService.  In  *)
(* _call_new_genai and _call_legacy_genai the client is stored in the       *)
(* service and read back from it for the request, with no lock; a thread    *)
(* may be suspended between the two statements.  locals[t] holds the        *)
(* locals of thread t, and `request` the key its last external request was  *)
(* meant for next to the key of the client that sent it.                    *)
(***************************************************************************)
Threads == {1, 2}

\* The services two requests may meet: two keys, one or two attempts per
\* key, either client library.
SharedConfigs ==
    {[api_keys |-> Prefix(KeyPool, 2), max_retries |-> r, sdk |-> lib, client |-> None] :
        r \in 1..2, lib \in {"new", "legacy"}}

\* What an external call does in this part: an image, an invalid key, a
\* timeout.
SharedOutcomes ==
    {o \in CallOutcomes :
        \/ o.kind = "returns" /\ o.resp = Reply(Some(<<TextPart, InlinePart(Image)>>))
        \/ o.kind = "raises" /\ o.msg \in {mKeyNotValid, mTimeout}}

CompleteClothing == Some([NoClothing EXCEPT !.top = Some(File(Image, Png))])

InitConcurrent ==
    /\ source = [kind |-> "array", records |-> <<>>]
    /\ catalog = Load(source, <<>>).catalog
    /\ raised = FALSE
    /\ configured = FALSE
    /\ gemini \in SharedConfigs
    /\ Idle

\* Two requests arrive: each thread runs generate_virtual_try_on_image up
\* to its first external call.
TwoCalls ==
    /\ op = "idle"
    /\ op' = "generate_virtual_try_on_image"
    /\ args' = [person |-> Some(File(Image, Png)), clothing_items |-> CompleteClothing]
    /\ locals' = [t \in Threads |->
                     Entry(gemini, Some(File(Image, Png)), CompleteClothing) @@ [request |-> None]]
    /\ ret' = <<>>
    /\ raised' = FALSE
    /\ UNCHANGED <<catalog, source, configured, gemini>>

\* Thread t runs the first statement of _call_new_genai or
\* _call_legacy_genai: the client of the service is made for its key.
MakeClient(t) ==
    /\ op = "generate_virtual_try_on_image"
    /\ locals[t].pc = "attempt"
    /\ gemini' = ClientFor(gemini, gemini.api_keys[locals[t].key])
    /\ locals' = [locals EXCEPT ![t].pc = "send"]
    /\ UNCHANGED <<catalog, source, configured, op, args, ret, raised>>

\* Thread t runs generate_content on the client the service holds at that
\* moment, then the return or the except clause.
SendRequest(t) ==
    /\ op = "generate_virtual_try_on_image"
    /\ locals[t].pc = "send"
    /\ \E o \in SharedOutcomes :
        LET sent == [locals[t] EXCEPT !.request = Some([meant_for |-> gemini.api_keys[locals[t].key],
                                                        sent_with |-> gemini.client[1]]),
                                      !.log = Append(@, [type |-> "call", key |-> locals[t].key,
                                                         attempt |-> locals[t].attempt,
                                                         outcome |-> o]),
                                      !.pc = "attempt"]
        IN locals' = [locals EXCEPT ![t] = AfterCall(gemini, sent, o)]
    /\ UNCHANGED <<catalog, source, configured, gemini, op, args, ret, raised>>

\* Thread t sleeps between two attempts on a key.
SleepOf(t) ==
    /\ op = "generate_virtual_try_on_image"
    /\ locals[t].pc = "sleep"
    /\ locals' = [locals EXCEPT ![t].attempt = @ + 1, ![t].pc = "attempt"]
    /\ UNCHANGED <<catalog, source, configured, gemini, op, args, ret, raised>>

\* Both calls have ended and their callers have the results.
BothReturn ==
    /\ op = "generate_virtual_try_on_image"
    /\ \A t \in Threads : locals[t].pc = "returned"
    /\ op' = "idle"
    /\ args' = <<>>
    /\ locals' = <<>>
    /\ ret' = <<>>
    /\ raised' = FALSE
    /\ UNCHANGED <<catalog, source, configured, gemini>>

NextConcurrent ==
    \/ TwoCalls
    \/ \E t \in Threads : MakeClient(t)
    \/ \E t \in Threads : SendRequest(t)
    \/ \E t \in Threads : SleepOf(t)
    \/ BothReturn

SpecConcurrent == InitConcurrent /\ [][NextConcurrent]_vars

\* C27: under every interleaving of two calls on the shared service, each
\* external request is sent by the client made for the key of the attempt
\* it belongs to: the key one call has moved to never decides which
\* credential the request of the other call carries.
C27_RequestCarriesOwnKey ==
    op = "generate_virtual_try_on_image" =>
        \A t \in Threads :
            locals[t].request # None =>
                locals[t].request[1].sent_with = locals[t].request[1].meant_for

====
